---- MODULE Spec2Model ----
(***************************************************************************)
(* Job orchestration engine of the Suqaba solver (FreeCAD FEM workbench):   *)
(* the token store, the authenticated remote calls, the tasks of            *)
(* femsolver/suqaba/tasks.py, their status pollers, and the task panel of   *)
(* femsolver/solver_taskpanel.py that drives them.                          *)
(*                                                                         *)
(* Three views of the same code:                                            *)
(*   Spec          one panel action = one step (tasks run to completion),   *)
(*                 with the trace of every invocation, on one machine;      *)
(*   SpecMachines  the same steps with directory changes, which replace     *)
(*                 the machine;                                             *)
(*   SpecThreads   the main thread and the poller threads interleaved at    *)
(*                 each access to shared state (tokens, do_check,           *)
(*                 slv_thread).                                             *)
(***************************************************************************)
EXTENDS Integers, Sequences, FiniteSets, TLC

(* ---------------------------------------------------------------- bounds *)

\* Machines the panel creates in one run (the first, then one per directory change).
MaxMachines == 2
\* Thread objects one task instance may hold at once.
MaxPollers == 2
\* Connections of one signal to one slot that the table counts.
MaxConnections == 2
\* Requests the backend receives in one run.
MaxCalls == 3
\* Largest processing / queued count the cluster reports.
MaxJobs == 1
\* Largest number of whitelisted files in the working directory.
MaxFiles == 1
\* Largest number of Body objects in the document, and of solids in a Body.
MaxBodies == 2

(* ------------------------------------------------------------ token store *)

\* settings.value("access_token", "") : the default of an absent key.
NoToken == ""
\* The token pair the cluster issues.
IssuedAccess == "a1"
IssuedRefresh == "r1"

(* ------------------------------------------------------- remote responses *)

\* The body of a response without JSON fields of interest.
NoBody == [json |-> FALSE]
\* authenticated_call returned None (no request was made).
None == [status |-> 0, body |-> NoBody]
\* requests raised instead of returning (no response from the server).
Raised == [status |-> -1, body |-> NoBody]

\* requests.Response.ok, which is also the truth value of a Response.
Ok(r) == r.status >= 200 /\ r.status < 400

\* Python's "response and response.ok".
Truthy(r) == r # None /\ Ok(r)

\* What GET /checkin/ may answer.
CheckinBodies ==
    [json : {TRUE}, processing : 0..MaxJobs, queued : 0..MaxJobs,
     is_processed : {"", "jobA"}, next_queue : {<<>>, <<"jobB", "1">>}]

\* The failures of a call: 401 from the cluster's API, whose own errors carry a JSON
\* body; 500 with a JSON body or with another one (an error page); or no response
\* at all.
Failures ==
    {[status |-> 401, body |-> [json |-> TRUE]],
     [status |-> 500, body |-> [json |-> TRUE]],
     [status |-> 500, body |-> [json |-> FALSE]],
     Raised}

\* 200 with the counts, 204 without content, or a failure.
CheckinAnswers ==
    {[status |-> 200, body |-> b] : b \in CheckinBodies}
        \cup {[status |-> 204, body |-> NoBody]}
        \cup Failures

\* The same for a task, whose run does not depend on the counts.
ProbeAnswers ==
    {[status |-> 200, body |-> [json |-> TRUE, processing |-> 1, queued |-> 0,
                                is_processed |-> "jobA", next_queue |-> <<>>]],
     [status |-> 204, body |-> NoBody]} \cup Failures

\* The job ids the cluster may return, as their characters: of no, three, eight
\* and eleven characters.
JobIds ==
    {<<>>, <<"a", "b", "1">>, <<"a", "b", "c", "1", "2", "3", "d", "e">>,
     <<"a", "b", "c", "1", "2", "3", "d", "e", "-", "7", "f">>}

\* What POST /upload/ may answer.
UploadAnswers ==
    {[status |-> 200, body |-> [json |-> TRUE, job_id |-> id]] : id \in JobIds}
        \cup Failures

\* What GET /fetch/ may answer: the job list, here empty or of one job.
FetchAnswers ==
    {[status |-> 200, body |-> [json |-> TRUE, jobs |-> j]] :
        j \in {"[]", "[abc123de-7f]"}} \cup Failures

\* What POST /cancel/<id>/ and POST /remove/<id>/ may answer.
MessageAnswers ==
    {[status |-> 200, body |-> [json |-> TRUE, message |-> "done"]]} \cup Failures

\* What GET /download/<id>/ may answer: the archive, the structured not-ready
\* answer under an error status, or a failure.
DownloadAnswers ==
    {[status |-> 200, body |-> [json |-> FALSE, filename |-> "run.zip"]]}
        \cup {[status |-> 400, body |-> [json |-> TRUE, not_ready |-> "not ready yet"]]}
        \cup Failures

\* What POST /token/ may answer: the pair, a pair lacking one token, or a failure.
TokenAnswers ==
    {[status |-> 200, body |-> [json |-> TRUE, access |-> a, refresh |-> r]] :
        a \in {NoToken, IssuedAccess}, r \in {NoToken, IssuedRefresh}} \cup Failures

\* authenticated_call: no token, or a mode that is neither GET nor POST, gives None
\* without a request; otherwise the answer of the server to the request.
authenticated_call(token, mode, answer) ==
    IF token = NoToken THEN None
    ELSE IF mode \notin {"GET", "POST"} THEN None
    ELSE answer

\* The kind of a response, as the traces name it.
Kind(r) ==
    IF r = None THEN "no token"
    ELSE IF r = Raised THEN "no response"
    ELSE IF r.status = 401 THEN "401"
    ELSE IF ~Ok(r) THEN "error"
    ELSE IF r.status # 200 THEN "other"
    ELSE IF "processing" \notin DOMAIN r.body THEN "ok"
    ELSE IF r.body.processing = 0 /\ r.body.queued = 0 THEN "zero"
    ELSE "busy"

\* The answers a call made with this token may get: there is one only when a request
\* goes out.
Asked(token, answers) == IF token = NoToken THEN {None} ELSE answers

\* A faulty variant of Request: the request goes out even without a token.
RequestAlways(token, mode, endpoint) ==
    <<[e |-> "request", what |-> endpoint, arg |-> token]>>

\* The request authenticated_call sends, as a trace event carrying its bearer token.
Request(token, mode, endpoint) ==
    IF token = NoToken \/ mode \notin {"GET", "POST"} THEN <<>>
    ELSE <<[e |-> "request", what |-> endpoint, arg |-> token]>>

\* requests.post to /token/ carries no bearer token.
PlainRequest(endpoint) == <<[e |-> "request", what |-> endpoint, arg |-> NoToken]>>

Signal(name, payload) == <<[e |-> "signal", what |-> name, arg |-> payload]>>
Status(line) == <<[e |-> "status", what |-> line, arg |-> ""]>>

\* A faulty variant of solver_status: zero counts do not stop the poller.
solver_status_keeps(counts) ==
    [msg |-> "No job is being processed or queued", do_check |-> TRUE]

\* A faulty variant of solver_status: without the rule of lines 110-111 for an
\* empty message.
solver_status_named(counts) ==
    LET zero == counts.processing = 0 /\ counts.queued = 0
    IN  [msg |-> IF zero THEN "No job is being processed or queued"
                 ELSE (IF counts.is_processed # "" THEN "processed;" ELSE "")
                      \o (IF counts.next_queue # <<>> THEN "queued;" ELSE ""),
         do_check |-> ~zero]

\* solver_status(response): the message and the new continuation flag.
solver_status(counts) ==
    LET zero == counts.processing = 0 /\ counts.queued = 0
        msg == IF zero THEN "No job is being processed or queued"
               ELSE (IF counts.is_processed # "" THEN "processed;" ELSE "")
                    \o (IF counts.next_queue # <<>> THEN "queued;" ELSE "")
    IN  [msg |-> msg,
         do_check |-> IF msg = "" THEN FALSE ELSE ~zero]


(* ------------------------------------------------------------ task bodies *)
(* Each operator is one stretch of a task's run(): the events it emits in   *)
(* order, the value left in "response", where the run goes next, the kind   *)
(* of answer its first authenticated call got ("-" without a call), and     *)
(* what it writes to the token store (<<>>: it has no settings.setValue or  *)
(* settings.remove).                                                        *)

\* auth_success(response) raises when response is None (no .json()) or when the
\* body is not JSON; an error body that is JSON only yields counts of None.
auth_success_raises(r) == r = None \/ ~r.body.json

\* The cluster-status refresh shared by Solve, Cancel and Remove
\* (lines 275-286, 317-328, 361-372): checkin, then fetch, then finished.
Refresh(token, checkin, fetch) ==
    LET r1 == authenticated_call(token, "GET", checkin)
        q1 == Request(token, "GET", "checkin")
        r2 == authenticated_call(token, "GET", fetch)
        q2 == Request(token, "GET", "fetch")
    IN  (IF r1 = Raised \/ auth_success_raises(r1)
         THEN [trace |-> q1, next |-> "raised", response |-> r1]
         ELSE IF r2 = Raised
         THEN [trace |-> q1 \o Status("Cluster status") \o q2, next |-> "raised",
               response |-> r2]
         ELSE IF Truthy(r2)
         THEN [trace |-> q1 \o Status("Cluster status") \o q2
                         \o Signal("finished", r2.body.jobs),
               next |-> "done", response |-> r2]
         ELSE IF r2 = None
         THEN \* response.status_code of None
              [trace |-> q1 \o Status("Cluster status") \o q2, next |-> "raised",
               response |-> r2]
         ELSE [trace |-> q1 \o Status("Cluster status") \o q2
                         \o Status("Fetching jobs failed") \o Signal("finished", "[]"),
               next |-> "done", response |-> r2])
        @@ [first |-> Kind(r1), write |-> <<>>]

\* A faulty variant of Slice: a field of fixed width, padded with blanks.
SlicePadded(id, stop) == [n \in 1..stop |-> IF n <= Len(id) THEN id[n] ELSE " "]

\* Python's id[:stop] for stop >= 0: the slice ends at stop or at the end of id,
\* whichever comes first.
Slice(id, stop) == SubSeq(id, 1, IF stop < Len(id) THEN stop ELSE Len(id))

\* The status line of line 269, with the part of the job id it shows.
Submitted(job_id) ==
    <<[e |-> "status", what |-> "Your job has successfully been submitted.",
       arg |-> Slice(job_id, 8)]>>

\* A faulty variant of SolveSubmit: the run goes on to the poller whatever the
\* upload answered.
SolveSubmitEager(token, n_file, upload) ==
    [trace |-> Request(token, "POST", "upload") \o Signal("need_auth", ""),
     next |-> "start", response |-> authenticated_call(token, "POST", upload),
     first |-> Kind(authenticated_call(token, "POST", upload)), write |-> <<>>]

\* Solve.run, lines 258-269 and 287-293: the archive and the upload.
SolveSubmit(token, n_file, upload) ==
    LET r == authenticated_call(token, "POST", upload)
        q == Request(token, "POST", "upload")
        pre == Status("files were added to the job archive")
    IN  (IF n_file = 0
         THEN [trace |-> pre \o Status("Your job cannot be submitted."),
               next |-> "done", response |-> None, first |-> "-"]
         ELSE IF r = Raised
         THEN [trace |-> pre \o q, next |-> "raised", response |-> r]
         ELSE IF Truthy(r)
         THEN [trace |-> pre \o q \o Submitted(r.body.job_id),
               next |-> "start", response |-> r]
         ELSE [trace |-> pre \o q
                         \o Status(IF r = None THEN "Please, authenticate yourself."
                                   ELSE "Upload failed")
                         \o Signal("need_auth", ""),
               next |-> "done", response |-> r])
        @@ [first |-> Kind(r), write |-> <<>>]

\* A faulty variant of Mutate: the request is sent without looking at the job id.
MutateUnguarded(token, job_id, endpoint, answer) ==
    [trace |-> Request(token, "POST", endpoint) \o Signal("need_auth", ""),
     next |-> "done", response |-> authenticated_call(token, "POST", answer),
     first |-> Kind(authenticated_call(token, "POST", answer)), write |-> <<>>]

\* Cancel.run and Remove.run, lines 308-337 / 352-381, up to the refresh.
Mutate(token, job_id, endpoint, answer) ==
    LET r == authenticated_call(token, "POST", answer)
        q == Request(token, "POST", endpoint)
    IN  (IF job_id = ""
         THEN [trace |-> Status("Please, fetch and select a job."),
               next |-> "done", response |-> None, first |-> "-"]
         ELSE IF r = Raised
         THEN [trace |-> q, next |-> "raised", response |-> r]
         ELSE IF Truthy(r)
         THEN IF r.body.json
              THEN [trace |-> q \o Status(r.body.message), next |-> "refresh",
                    response |-> r]
              ELSE [trace |-> q, next |-> "raised", response |-> r]
         ELSE [trace |-> q
                         \o Status(IF r = None THEN "Please, authenticate yourself."
                                   ELSE "Cancelling job may have failed")
                         \o Signal("need_auth", ""),
               next |-> "done", response |-> r])
        @@ [first |-> Kind(r), write |-> <<>>]

\* A faulty variant of Fetch.run: without a token it does not ask for
\* authentication.
FetchRunSilent(token, answer) ==
    [trace |-> Request(token, "GET", "fetch") \o Signal("finished", "[]")
               \o (IF token = NoToken THEN <<>> ELSE Signal("need_auth", "")),
     next |-> "done", response |-> authenticated_call(token, "GET", answer),
     first |-> Kind(authenticated_call(token, "GET", answer)), write |-> <<>>]

\* A faulty variant of Fetch.run: a 401 makes it drop the stored tokens.
FetchRunForgets(token, answer) ==
    [trace |-> Request(token, "GET", "fetch") \o Signal("finished", "[]")
               \o Signal("need_auth", ""),
     next |-> "done", response |-> authenticated_call(token, "GET", answer),
     first |-> Kind(authenticated_call(token, "GET", answer)),
     write |-> IF authenticated_call(token, "GET", answer).status = 401
               THEN <<[access |-> NoToken, refresh |-> NoToken]>> ELSE <<>>]

\* Fetch.run, lines 395-411.
FetchRun(token, answer) ==
    LET r == authenticated_call(token, "GET", answer)
        q == Request(token, "GET", "fetch")
    IN  (IF r = Raised
         THEN [trace |-> q, next |-> "raised", response |-> r]
         ELSE IF Truthy(r)
         THEN [trace |-> q \o Status("Fetch jobs report")
                         \o Signal("finished", r.body.jobs),
               next |-> "done", response |-> r]
         ELSE [trace |-> q
                         \o Status(IF r = None THEN "Please, authenticate yourself."
                                   ELSE "Fetching jobs failed")
                         \o Signal("finished", "[]") \o Signal("need_auth", ""),
               next |-> "done", response |-> r])
        @@ [first |-> Kind(r), write |-> <<>>]

\* Results.run, lines 425-472.
ResultsRun(token, job_id, answer) ==
    LET r == authenticated_call(token, "GET", answer)
        q == Request(token, "GET", "download")
        pre == Status("Downloading Job")
    IN  (IF job_id = ""
         THEN [trace |-> Status("Please, fetch and select a job before pulling."),
               next |-> "done", response |-> None, first |-> "-"]
         ELSE IF r = Raised
         THEN [trace |-> pre \o q, next |-> "raised", response |-> r]
         ELSE IF Truthy(r)
         THEN [trace |-> pre \o q \o Status("Result files downloaded successfully"),
               next |-> "done", response |-> r]
         ELSE IF r = None
         THEN [trace |-> pre \o q \o Status("Please, authenticate yourself.")
                         \o Signal("need_auth", ""),
               next |-> "done", response |-> r]
         ELSE IF ~r.body.json
         THEN \* response.json() of a body that is not JSON
              [trace |-> pre \o q, next |-> "raised", response |-> r]
         ELSE [trace |-> pre \o q
                         \o Status(IF "not_ready" \in DOMAIN r.body
                                   THEN r.body.not_ready
                                   ELSE "Error downloading result")
                         \o Signal("need_auth", ""),
               next |-> "done", response |-> r])
        @@ [first |-> Kind(r), write |-> <<>>]

\* AuthCheck.run, lines 502-528, up to the start of the poller.
AuthCheckRun(token, answer) ==
    LET r == authenticated_call(token, "GET", answer)
        q == Request(token, "GET", "checkin")
    IN  (IF r = Raised
         THEN [trace |-> q, next |-> "raised", response |-> r]
         ELSE IF ~Truthy(r)
         THEN [trace |-> q \o Status("Please, authenticate yourself.")
                         \o Signal("finished", "0"),
               next |-> "done", response |-> r]
         ELSE IF r.status = 401
         THEN [trace |-> q \o Status("Please, authenticate yourself.")
                         \o Signal("finished", "0"),
               next |-> "done", response |-> r]
         ELSE IF r.status = 200
         THEN IF auth_success_raises(r)
              THEN [trace |-> q, next |-> "raised", response |-> r]
              ELSE [trace |-> q \o Status("You are authenticated.")
                              \o Signal("finished", "1"),
                    next |-> "start", response |-> r]
         ELSE [trace |-> q \o Status("Unexpected response") \o Signal("finished", "0"),
               next |-> "done", response |-> r])
        @@ [first |-> Kind(r), write |-> <<>>]

\* A faulty variant of the test below: only both fields empty stop the login.
BothEmpty(email, pswrd) == email = "" /\ pswrd = ""

\* Auth.run, line 553: "not self.email or not self.pswrd".
EmptyCredentials(email, pswrd) == email = "" \/ pswrd = ""

\* Auth.run, lines 543-546 and 552-586: the probe and, when it fails, the login
\* request. "logout" and "login" are the two stretches that write the token store.
AuthProbe(token, email, pswrd, checkin, login) ==
    LET r == authenticated_call(token, "GET", checkin)
        q == Request(token, "GET", "checkin")
        p == PlainRequest("token")
    IN  (IF r = Raised
         THEN [trace |-> q, next |-> "raised", response |-> r]
         ELSE IF Truthy(r)
         THEN [trace |-> q, next |-> "logout", response |-> r]
         ELSE IF EmptyCredentials(email, pswrd)
         THEN [trace |-> q \o Status("Email or password cannot be empty.")
                         \o Signal("finished", "0"),
               next |-> "done", response |-> r]
         ELSE IF login = Raised
         THEN [trace |-> q \o p, next |-> "raised", response |-> login]
         ELSE IF Truthy(login)
         THEN IF ~login.body.json
              THEN [trace |-> q \o p, next |-> "raised", response |-> login]
              ELSE IF login.body.access # NoToken /\ login.body.refresh # NoToken
              THEN [trace |-> q \o p, next |-> "login", response |-> login]
              ELSE [trace |-> q \o p \o Status("Authentication failed (access not found).")
                              \o Signal("finished", "0"),
                    next |-> "done", response |-> login]
         ELSE [trace |-> q \o p \o Status("Authentication failed")
                         \o Signal("finished", "0"),
               next |-> "done", response |-> login])
        @@ [first |-> Kind(r), write |-> <<>>]

\* Auth.run, lines 572-576: the checkin summary after the tokens were stored.
AuthConfirm(token, checkin) ==
    LET r == authenticated_call(token, "GET", checkin)
        q == Request(token, "GET", "checkin")
    IN  (IF r = Raised \/ auth_success_raises(r)
         THEN [trace |-> q, next |-> "raised", response |-> r]
         ELSE [trace |-> q \o Status("You are authenticated.")
                         \o Signal("finished", "1"),
               next |-> "done", response |-> r])
        @@ [first |-> Kind(r), write |-> <<>>]


(* ------------------------------------------------------------------ state *)

VARIABLES
    access,       \* QSettings "access_token" ("" when absent)
    refresh,      \* QSettings "refresh_token" ("" when absent)
    panel,        \* "live" until the panel's widget is destroyed
    machine,      \* the panel's current machine (ControlTaskPanel._machine)
    do_check,     \* do_check of each machine's Solve and AuthCheck task
    slv_thread,   \* slv_thread of each: 0 is a Thread() never started, k is thread k
    thr,          \* the poller threads of each: position, token read, whether the
                  \* last answer had both counts at zero
    mpc,          \* position of the main thread inside the running task
    response,     \* the running task's local variable "response"
    tokens,       \* Auth.run's local "tokens" (the access / refresh pair of /token)
    doc,          \* the document as Prepare sees it: its Body objects, their solids,
                  \* the analysis members, and the solver's ErrorThreshold
    conn,         \* how many times each signal of the machine's tasks is connected
                  \* to its slot of the panel's widget
    users,        \* the rows of the backend's "users" table
    calls,        \* the backend's requests: the endpoint, its arguments, where the
                  \* handler stands and what it answered
    ev            \* what the last step did: the task or thread, the kind of answer its
                  \* first call got, and the events in order

vars == <<access, refresh, panel, machine, do_check, slv_thread, thr, mpc,
          response, tokens, doc, conn, users, calls, ev>>

\* The state of the backend service, which the desktop panel never touches, and
\* the state of the panel, which the backend never touches.
backend == <<users, calls>>
frontend == <<access, refresh, panel, machine, do_check, slv_thread, thr, mpc,
              response, tokens, doc, conn, ev>>

Machines == 1..MaxMachines
PollTasks == {"solve", "auth_check"}
Inst == Machines \X PollTasks
Slots == 1..MaxPollers

NoThread == [pc |-> "none", tok |-> NoToken, last |-> "none"]
NoTokens == [access |-> NoToken, refresh |-> NoToken]

\* The documents Prepare may find: 0 to MaxBodies Body objects, the solids of the
\* Body when there is one (they are not counted otherwise), whether the analysis
\* has its one material object, whether that object lacks a material (it is looked
\* at only when it is the only one), the fixed constraints, and the solver's
\* ErrorThreshold in tenths of a percent.
Documents ==
    {d \in [bodies : 0..MaxBodies, solids : 0..MaxBodies, members_ok : BOOLEAN,
            material_unset : BOOLEAN, fixed : 0..1, ErrorThreshold : {20, 25, 200}] :
        /\ d.bodies # 1 => d.solids = 1
        /\ ~d.members_ok => ~d.material_unset}

\* A document that passes every check of Prepare.
SoundDocument ==
    [bodies |-> 1, solids |-> 1, members_ok |-> TRUE, material_unset |-> FALSE,
     fixed |-> 1, ErrorThreshold |-> 25]

NoEvent == [by |-> "init", first |-> "-", trace |-> <<>>]
\* A step of a thread that emits nothing and calls nothing.
Quiet == [by |-> "thread", first |-> "-", trace |-> <<>>]

\* threading.Thread.is_alive of the thread object slv_thread refers to.
is_alive(i) ==
    slv_thread[i] # 0 /\ thr[i][slv_thread[i]].pc \notin {"none", "dead"}

\* The threads of instance i that are inside the polling loop (lines 245-253).
InLoop(i) == {k \in Slots : thr[i][k].pc \in {"begin", "test", "read", "call"}}

\* A started thread that has not returned.
Running(i) == {k \in Slots : thr[i][k].pc \notin {"none", "dead"}}

(* ---------------------------------------------------------- poller thread *)

\* solver_status, line 245 / 489: self.do_check = True
PollerBegin(i, k) ==
    /\ thr[i][k].pc = "begin"
    /\ do_check' = [do_check EXCEPT ![i] = TRUE]
    /\ thr' = [thr EXCEPT ![i][k].pc = "test"]
    /\ ev' = Quiet
    /\ UNCHANGED <<access, refresh, panel, machine, slv_thread, mpc, response, tokens,
                   doc, conn, backend>>

\* line 246 / 490: while self.do_check
PollerTest(i, k) ==
    /\ thr[i][k].pc = "test"
    /\ thr' = [thr EXCEPT ![i][k].pc = IF do_check[i] THEN "read" ELSE "exit"]
    /\ ev' = Quiet
    /\ UNCHANGED <<access, refresh, panel, machine, do_check, slv_thread, mpc,
                   response, tokens, doc, conn, backend>>

\* authenticated_call, lines 53-54: the token is read from the settings
PollerRead(i, k) ==
    /\ thr[i][k].pc = "read"
    /\ thr' = [thr EXCEPT ![i][k].pc = "call", ![i][k].tok = access]
    /\ ev' = Quiet
    /\ UNCHANGED <<access, refresh, panel, machine, do_check, slv_thread, mpc,
                   response, tokens, doc, conn, backend>>

\* A faulty variant of PollerOutcome: whatever the call gave, the poller sleeps and
\* goes on as it was.
PollerOutcomeGoesOn(token, answer, flag) ==
    [pc |-> "test", do_check |-> flag, trace |-> Request(token, "GET", "checkin"),
     last |-> "none", first |-> Kind(authenticated_call(token, "GET", answer)),
     write |-> <<>>]

\* What one answer does to the poller: lines 247-253 / 491-497 after the token read.
\* A call that raises (no response), or response.json() raising on a body that is
\* not JSON, ends the thread where it stands; the flag keeps its value.
PollerOutcome(token, answer, flag) ==
    LET r == authenticated_call(token, "GET", answer)
        st == solver_status(r.body)
    IN  (IF r = Raised \/ (Truthy(r) /\ ~r.body.json)
         THEN [pc |-> "dead", do_check |-> flag,
               trace |-> Request(token, "GET", "checkin"), last |-> "none"]
         ELSE IF Truthy(r)
         THEN [pc |-> "test", do_check |-> st.do_check,
               trace |-> Request(token, "GET", "checkin")
                         \o Signal("slv_status", st.msg),
               last |-> IF r.body.processing = 0 /\ r.body.queued = 0
                        THEN "zero" ELSE "none"]
         ELSE [pc |-> "test", do_check |-> FALSE,
               trace |-> Request(token, "GET", "checkin"), last |-> "none"])
        @@ [first |-> Kind(r), write |-> <<>>]

\* lines 247-253 / 491-497: the call, the new flag, the sleep
PollerCall(i, k) ==
    /\ thr[i][k].pc = "call"
    /\ \E answer \in Asked(thr[i][k].tok, CheckinAnswers) :
         LET o == PollerOutcome(thr[i][k].tok, answer, do_check[i])
         IN  /\ do_check' = [do_check EXCEPT ![i] = o.do_check]
             /\ thr' = [thr EXCEPT ![i][k] = [pc |-> o.pc, tok |-> NoToken,
                                               last |-> o.last]]
             /\ ev' = [by |-> "poller", first |-> o.first, trace |-> o.trace]
    /\ UNCHANGED <<access, refresh, panel, machine, slv_thread, mpc, response, tokens,
                   doc, conn, backend>>

\* line 255 / 499: self.slv_thread = threading.Thread(), and the thread returns
PollerExit(i, k) ==
    /\ thr[i][k].pc = "exit"
    /\ slv_thread' = [slv_thread EXCEPT ![i] = 0]
    /\ thr' = [thr EXCEPT ![i][k] = NoThread]
    /\ ev' = Quiet
    /\ UNCHANGED <<access, refresh, panel, machine, do_check, mpc, response, tokens,
                   doc, conn, backend>>

Poller(i, k) ==
    \/ PollerBegin(i, k)
    \/ PollerTest(i, k)
    \/ PollerRead(i, k)
    \/ PollerCall(i, k)
    \/ PollerExit(i, k)

(* ------------------------------------------------------------ main thread *)

Solve(m) == <<m, "solve">>
AuthChk(m) == <<m, "auth_check">>

\* threading.Thread(target=self.solver_status, daemon=True) and start(), lines
\* 272-273 / 524-525: the handle refers to a new thread, which stands before line
\* 245 / 489. A thread that died leaves no trace; one that runs keeps running.
StartThread(i) ==
    LET free == {k \in Slots : thr[i][k].pc \in {"none", "dead"}}
        k == CHOOSE x \in free : \A y \in free : x <= y
    IN  /\ free # {}
        /\ slv_thread' = [slv_thread EXCEPT ![i] = k]
        /\ thr' = [thr EXCEPT ![i][k] = [pc |-> "begin", tok |-> NoToken,
                                         last |-> "none"]]

\* The trace event of a thread start.
Started(task) == <<[e |-> "start", what |-> task, arg |-> ""]>>

\* A faulty variant of StartsPoller: a poller is never started again.
StartsPollerNever(alive) == FALSE

\* A faulty variant of StartsPoller: the start path does not look at the thread.
StartsPollerAlways(alive) == TRUE

\* Whether Solve.run / AuthCheck.run starts a poller: line 271 / 523.
StartsPoller(alive) == ~alive

\* The events of a stretch without its status lines: what goes over the wire and
\* what is signalled.
Wire(trace) == SelectSeq(trace, LAMBDA x : x.e # "status")

\* _disconnectMachine, lines 238-240: both flags of the machine are cleared.
Disconnected(m) ==
    [i \in Inst |-> IF i[1] = m THEN FALSE ELSE do_check[i]]

\* The pairs of credentials and /token answers: the answer is drawn only when the
\* request is made.
Credentials ==
    {c \in [email : {"", "user@x"}, pswrd : {"", "secret"}, login : TokenAnswers] :
        (c.email = "" \/ c.pswrd = "") => c.login = Raised}

\* The answers to a call that is made only when the run got that far.
Then(reached, answers) == IF reached THEN answers ELSE {None}

\* Whether a refresh whose checkin got this answer goes on to its fetch call.
Fetches(checkin) == ~(checkin = Raised \/ auth_success_raises(checkin))

\* A pair of credentials the probe's outcome does not look at.
NoCredentials == [email |-> "", pswrd |-> "", login |-> Raised]

\* The fields filled in, for a run that ends before its login request.
Typed == [email |-> "user@x", pswrd |-> "secret", login |-> Raised]

(* ------------------------------------------- signals and their connections *)

\* The signals the panel's handlers connect (solver_taskpanel.py, lines 112-199):
\* finished to createJobBoxes or checkIn, need_auth to enableAuth, slv_status to
\* solveStatus.
Wired ==
    {"solve.finished", "solve.need_auth", "solve.slv_status",
     "auth_check.finished", "auth_check.slv_status",
     "fetch.finished", "fetch.need_auth", "results.need_auth",
     "cancel.finished", "cancel.need_auth", "remove.finished", "remove.need_auth",
     "auth.finished"}

\* A table that follows no signal, and the table of tasks just constructed.
Untracked == [s \in {} |-> 0]
NoConnections == [s \in Wired |-> 0]

\* Signal.connect(slot) adds a connection, also when the slot is connected
\* already; Signal.disconnect() without an argument removes all of them.
connect(c, s) == IF s \in DOMAIN c THEN [c EXCEPT ![s] = @ + 1] ELSE c
disconnect(c, s) == IF s \in DOMAIN c THEN [c EXCEPT ![s] = 0] ELSE c

\* The connect and disconnect statements of each handler, in order.
Statements(h) ==
    CASE h = "run" ->
           <<<<"connect", "solve.finished">>, <<"connect", "solve.need_auth">>,
             <<"connect", "auth_check.slv_status">>,
             <<"disconnect", "auth_check.slv_status">>,
             <<"connect", "solve.slv_status">>, <<"disconnect", "solve.slv_status">>,
             <<"connect", "solve.slv_status">>>>
      [] h = "fetch" ->
           <<<<"connect", "fetch.finished">>, <<"connect", "fetch.need_auth">>>>
      [] h = "pull" -> <<<<"connect", "results.need_auth">>>>
      [] h = "cancel" ->
           <<<<"connect", "cancel.finished">>, <<"connect", "cancel.need_auth">>>>
      [] h = "remove" ->
           <<<<"connect", "remove.finished">>, <<"connect", "remove.need_auth">>>>
      [] h = "auth_check" ->
           <<<<"connect", "auth_check.finished">>,
             <<"connect", "solve.slv_status">>, <<"disconnect", "solve.slv_status">>,
             <<"connect", "auth_check.slv_status">>,
             <<"disconnect", "auth_check.slv_status">>,
             <<"connect", "auth_check.slv_status">>>>
      [] h = "auth" -> <<<<"connect", "auth.finished">>>>

\* The table after a sequence of statements.
RECURSIVE Executed(_, _)
Executed(statements, c) ==
    IF statements = <<>> THEN c
    ELSE LET st == Head(statements)
         IN  Executed(Tail(statements),
                      IF st[1] = "connect" THEN connect(c, st[2])
                      ELSE disconnect(c, st[2]))

\* Handler h runs its statements; a count is followed up to MaxConnections.
Connects(h) ==
    /\ \A s \in DOMAIN conn : Executed(Statements(h), conn)[s] <= MaxConnections
    /\ conn' = Executed(Statements(h), conn)


\* A faulty variant of Idle: after a run whose call met an error status or no
\* response the machine takes no further start().
IdleUnlessFailed ==
    panel = "live" /\ mpc = "idle" /\ ev.first \notin {"error", "no response"}

\* A faulty variant of Idle: a handler begins whatever the panel's thread is doing.
IdleAnytime == panel = "live" /\ mpc # "created"

\* Machine.start() runs the task of the target state to its end on the caller's
\* thread, and the panel's handlers do not nest: a handler begins when no task runs.
Idle == panel = "live" /\ mpc = "idle"

(* ----------------------- main thread, one access to shared state per step *)

\* ControlTaskPanel.run (lines 108-120) and Solve.run up to line 269.
RunClicked ==
    /\ Idle
    /\ \E n_file \in 0..MaxFiles, upload \in Asked(access, UploadAnswers) :
         LET o == SolveSubmit(access, n_file, upload)
         IN  /\ ev' = [by |-> "run", first |-> o.first, trace |-> Wire(o.trace)]
             /\ response' = IF o.next = "start" THEN o.response ELSE None
             /\ mpc' = IF o.next = "start" THEN "solve_alive" ELSE "idle"
    /\ do_check' = [do_check EXCEPT ![AuthChk(machine)] = FALSE]
    /\ Connects("run")
    /\ UNCHANGED <<access, refresh, panel, machine, slv_thread, thr, tokens, doc, backend>>

\* Solve.run, line 271: if not self.slv_thread.is_alive()
SolveAlive ==
    /\ mpc = "solve_alive"
    /\ mpc' = IF StartsPoller(is_alive(Solve(machine))) THEN "solve_start"
              ELSE "solve_refresh"
    /\ ev' = [by |-> "run", first |-> "-", trace |-> <<>>]
    /\ UNCHANGED <<access, refresh, panel, machine, do_check, slv_thread, thr,
                   response, tokens, doc, conn, backend>>

\* Solve.run, lines 272-273
SolveStart ==
    /\ mpc = "solve_start"
    /\ StartThread(Solve(machine))
    /\ mpc' = "solve_refresh"
    /\ ev' = [by |-> "run", first |-> "-", trace |-> Started("solve")]
    /\ UNCHANGED <<access, refresh, panel, machine, do_check, response, tokens, doc, conn,
                   backend>>

\* Solve.run, lines 275-286
SolveRefresh ==
    /\ mpc = "solve_refresh"
    /\ \E checkin \in Asked(access, ProbeAnswers) :
       \E fetch \in Then(Fetches(checkin), Asked(access, FetchAnswers)) :
         LET o == Refresh(access, checkin, fetch)
         IN  ev' = [by |-> "run", first |-> o.first, trace |-> Wire(o.trace)]
    /\ response' = None
    /\ mpc' = "idle"
    /\ UNCHANGED <<access, refresh, panel, machine, do_check, slv_thread, thr, tokens,
                   doc, conn, backend>>

\* ControlTaskPanel.auth_check (lines 180-191), which the panel runs when it is
\* given a machine (__init__, line 90, through updateWidget, line 210), and
\* AuthCheck.run up to line 522.
PanelCreated ==
    /\ panel = "live" /\ mpc = "created"
    /\ \E checkin \in Asked(access, CheckinAnswers) :
         LET o == AuthCheckRun(access, checkin)
         IN  /\ ev' = [by |-> "auth_check", first |-> o.first, trace |-> Wire(o.trace)]
             /\ response' = IF o.next = "start" THEN o.response ELSE None
             /\ mpc' = IF o.next = "start" THEN "authchk_alive" ELSE "idle"
    /\ do_check' = [do_check EXCEPT ![Solve(machine)] = FALSE]
    /\ Connects("auth_check")
    /\ UNCHANGED <<access, refresh, panel, machine, slv_thread, thr, tokens, doc, backend>>

\* AuthCheck.run, line 523
AuthChkAlive ==
    /\ mpc = "authchk_alive"
    /\ mpc' = IF StartsPoller(is_alive(AuthChk(machine))) THEN "authchk_start"
              ELSE "idle"
    /\ response' = IF StartsPoller(is_alive(AuthChk(machine))) THEN response ELSE None
    /\ ev' = [by |-> "auth_check", first |-> "-", trace |-> <<>>]
    /\ UNCHANGED <<access, refresh, panel, machine, do_check, slv_thread, thr, tokens,
                   doc, conn, backend>>

\* AuthCheck.run, lines 524-525
AuthChkStart ==
    /\ mpc = "authchk_start"
    /\ StartThread(AuthChk(machine))
    /\ mpc' = "idle"
    /\ response' = None
    /\ ev' = [by |-> "auth_check", first |-> "-",
              trace |-> Started("auth_check")]
    /\ UNCHANGED <<access, refresh, panel, machine, do_check, tokens, doc, conn, backend>>

\* The panel's widget is destroyed: _disconnectMachine (line 72).
Destroyed ==
    /\ Idle
    /\ panel' = "destroyed"
    /\ do_check' = Disconnected(machine)
    /\ ev' = [by |-> "destroyed", first |-> "-", trace |-> <<>>]
    /\ UNCHANGED <<access, refresh, machine, slv_thread, thr, mpc, response, tokens,
                   doc, conn, backend>>

\* ControlTaskPanel.auth (lines 193-200) and Auth.run up to the first write of the
\* token store.
AuthClicked ==
    /\ Idle
    /\ \E checkin \in Asked(access, ProbeAnswers) :
       \E c \in IF checkin = Raised \/ Truthy(checkin) THEN {NoCredentials, Typed}
                ELSE Credentials :
         LET o == AuthProbe(access, c.email, c.pswrd, checkin, c.login)
         IN  /\ ev' = [by |-> "auth", first |-> o.first, trace |-> Wire(o.trace)]
             /\ mpc' = CASE o.next = "logout" -> "logout_access"
                         [] o.next = "login" -> "login_access"
                         [] OTHER -> "idle"
             /\ tokens' = IF o.next = "login"
                          THEN [access |-> o.response.body.access,
                                refresh |-> o.response.body.refresh]
                          ELSE NoTokens
    /\ Connects("auth")
    /\ UNCHANGED <<access, refresh, panel, machine, do_check, slv_thread, thr, response,
                   doc, backend>>

\* Auth.run, line 548: settings.remove("access_token")
LogoutAccess ==
    /\ mpc = "logout_access"
    /\ access' = NoToken
    /\ mpc' = "logout_refresh"
    /\ ev' = [by |-> "auth", first |-> "-", trace |-> <<>>]
    /\ UNCHANGED <<refresh, panel, machine, do_check, slv_thread, thr, response, tokens,
                   doc, conn, backend>>

\* Auth.run, lines 549-551: settings.remove("refresh_token"), clear(), finished
LogoutRefresh ==
    /\ mpc = "logout_refresh"
    /\ refresh' = NoToken
    /\ mpc' = "idle"
    /\ ev' = [by |-> "auth", first |-> "-", trace |-> Signal("finished", "0")]
    /\ UNCHANGED <<access, panel, machine, do_check, slv_thread, thr, response, tokens,
                   doc, conn, backend>>

\* Auth.run, line 569: settings.setValue("access_token", access_token)
LoginAccess ==
    /\ mpc = "login_access"
    /\ access' = tokens.access
    /\ mpc' = "login_refresh"
    /\ ev' = [by |-> "auth", first |-> "-", trace |-> <<>>]
    /\ UNCHANGED <<refresh, panel, machine, do_check, slv_thread, thr, response, tokens,
                   doc, conn, backend>>

\* Auth.run, lines 570-576: settings.setValue("refresh_token", refresh_token), then
\* the checkin summary and finished
LoginRefresh ==
    /\ mpc = "login_refresh"
    /\ refresh' = tokens.refresh
    /\ \E checkin \in Asked(access, ProbeAnswers) :
         LET o == AuthConfirm(access, checkin)
         IN  ev' = [by |-> "auth", first |-> o.first, trace |-> Wire(o.trace)]
    /\ mpc' = "idle"
    /\ tokens' = NoTokens
    /\ UNCHANGED <<access, panel, machine, do_check, slv_thread, thr, response, doc, conn,
                   backend>>

\* The backend's requests, by their number; one that is not received yet.
CallIds == 1..MaxCalls
NoCall == [op |-> "-", pc |-> "-", email |-> "", known |-> FALSE, user |-> 0,
           token |-> "", outcome |-> "-", status |-> 0, detail |-> "",
           access_token |-> ""]

\* The panel is about to be given its first machine; a token pair of an earlier
\* session may be stored.
InitPanel ==
    /\ \E s \in {<<NoToken, NoToken>>, <<IssuedAccess, IssuedRefresh>>} :
         access = s[1] /\ refresh = s[2]
    /\ panel = "live"
    /\ machine = 1
    /\ do_check = [i \in Inst |-> FALSE]
    /\ slv_thread = [i \in Inst |-> 0]
    /\ thr = [i \in Inst |-> [k \in Slots |-> NoThread]]
    /\ mpc = "created"
    /\ response = None
    /\ tokens = NoTokens
    /\ doc = SoundDocument
    /\ ev = NoEvent

\* The views of the runs follow no connection; the backend has an empty table and
\* has received no request.
InitThreads ==
    /\ InitPanel
    /\ conn = Untracked
    /\ users = {}
    /\ calls = [c \in CallIds |-> NoCall]

(* ------------------------------------- whole runs of the tasks, as one step *)

\* The token store after a run: only a run that writes changes it.
Store(o) ==
    /\ access' = IF o.write = <<>> THEN access ELSE o.write[1].access
    /\ refresh' = IF o.write = <<>> THEN refresh ELSE o.write[1].refresh

\* Solve.run, lines 258-293.
SolveRun(token, n_file, upload, checkin, fetch, alive) ==
    LET s == SolveSubmit(token, n_file, upload)
        t == Refresh(token, checkin, fetch)
        go == s.next = "start" /\ StartsPoller(alive)
    IN  [first |-> s.first, write |-> <<>>, start |-> go,
         trace |-> IF s.next = "start"
                   THEN s.trace \o (IF go THEN Started("solve") ELSE <<>>) \o t.trace
                   ELSE s.trace]

\* Cancel.run and Remove.run, lines 308-337 / 352-381.
MutateRun(token, job_id, endpoint, answer, checkin, fetch) ==
    LET s == Mutate(token, job_id, endpoint, answer)
        t == Refresh(token, checkin, fetch)
    IN  [first |-> s.first, write |-> <<>>,
         trace |-> IF s.next = "refresh" THEN s.trace \o t.trace ELSE s.trace]

\* AuthCheck.run, lines 502-528.
AuthCheckTask(token, checkin, alive) ==
    LET a == AuthCheckRun(token, checkin)
        go == a.next = "start" /\ StartsPoller(alive)
    IN  [first |-> a.first, write |-> <<>>, start |-> go,
         trace |-> IF go THEN a.trace \o Started("auth_check") ELSE a.trace]

\* A faulty variant of Auth.run: an accepted login is reported without the pair
\* being written to the store.
AuthRunForgets(token, c, checkin, confirm) ==
    LET p == AuthProbe(token, c.email, c.pswrd, checkin, c.login)
        pair == [access |-> c.login.body.access, refresh |-> c.login.body.refresh]
    IN  IF p.next = "logout"
        THEN [first |-> p.first, write |-> <<NoTokens>>,
              trace |-> p.trace \o Signal("finished", "0")]
        ELSE IF p.next = "login"
        THEN [first |-> p.first, write |-> <<>>,
              trace |-> p.trace \o AuthConfirm(pair.access, confirm).trace]
        ELSE [first |-> p.first, write |-> <<>>, trace |-> p.trace]

\* Auth.run, lines 543-586.
AuthRun(token, c, checkin, confirm) ==
    LET p == AuthProbe(token, c.email, c.pswrd, checkin, c.login)
        pair == [access |-> c.login.body.access, refresh |-> c.login.body.refresh]
    IN  IF p.next = "logout"
        THEN [first |-> p.first, write |-> <<NoTokens>>,
              trace |-> p.trace \o Signal("finished", "0")]
        ELSE IF p.next = "login"
        THEN [first |-> p.first, write |-> <<pair>>,
              trace |-> p.trace \o AuthConfirm(pair.access, confirm).trace]
        ELSE [first |-> p.first, write |-> <<>>, trace |-> p.trace]

\* solver.ErrorThreshold is kept in tenths of a percent: the floor of 2.5 %.
MinErrorThreshold == 25

\* report.error followed by self.fail(), which marks the run failed; report.warning.
Fail == <<[e |-> "fail", what |-> "failed", arg |-> ""]>>
Error(msg) == <<[e |-> "error", what |-> msg, arg |-> ""]>> \o Fail
Warning(msg) == <<[e |-> "warning", what |-> msg, arg |-> ""]>>

\* A faulty variant of check_target_error: it warns and leaves the threshold.
check_target_error_warns(threshold) ==
    [ErrorThreshold |-> threshold,
     trace |-> IF threshold < MinErrorThreshold
               THEN Warning("cannot be set below 2.5%") ELSE <<>>]

\* Prepare.check_target_error, lines 161-169: a threshold below the floor is set
\* to the floor, with a warning.
check_target_error(threshold) ==
    IF threshold < MinErrorThreshold
    THEN [ErrorThreshold |-> MinErrorThreshold,
          trace |-> Warning("cannot be set below 2.5%")]
    ELSE [ErrorThreshold |-> threshold, trace |-> <<>>]

\* A faulty variant of Prepare.run: the writer runs whatever the checks found.
PrepareRunWrites(bodies, solids, members_ok, material_unset, fixed, threshold, written) ==
    LET failed == (bodies # 1 \/ solids # 1) \/ ~members_ok \/ material_unset
                      \/ fixed = 0
    IN  [first |-> "-", write |-> <<>>,
         failed |-> failed \/ ~written,
         ErrorThreshold |-> check_target_error(threshold).ErrorThreshold,
         trace |-> Status("Checking analysis member...")
                   \o (IF failed THEN Error("A check failed") ELSE <<>>)
                   \o Status("Preparing solver input...")
                   \o (IF written THEN Status("Writing solver input completed.")
                       ELSE Status("Writing solver input failed.") \o Fail)]

\* Prepare.run, lines 171-193, with its checks (lines 117-169). members_ok is the
\* outcome of check_material_exists and check_material_single of the task's base
\* class.
PrepareRun(bodies, solids, members_ok, material_unset, fixed, threshold, written) ==
    LET body == IF bodies < 1 THEN Error("Add one Body object.")
                ELSE IF bodies > 1 THEN Error("Only one Body object is supported")
                ELSE IF solids < 1 THEN Error("Add one 3D solid into body")
                ELSE IF solids > 1 THEN Error("Only one 3D solid per Body object")
                ELSE <<>>
        material == IF material_unset THEN Error("No material was selected") ELSE <<>>
        dirichlet == IF fixed = 0 THEN Error("Missing a fixed boundary condition")
                     ELSE <<>>
        target == check_target_error(threshold).trace
        members == IF members_ok THEN <<>> ELSE Fail
        failed == body # <<>> \/ ~members_ok \/ material # <<>> \/ dirichlet # <<>>
    IN  [first |-> "-", write |-> <<>>,
         failed |-> failed \/ ~written,
         ErrorThreshold |-> check_target_error(threshold).ErrorThreshold,
         trace |-> Status("Checking analysis member...") \o body \o members
                   \o material \o dirichlet \o target
                   \o (IF failed THEN <<>>
                       ELSE Status("Preparing solver input...")
                            \o (IF written THEN Status("Writing solver input completed.")
                                ELSE Status("Writing solver input failed.") \o Fail))]

(* ----------------------------------------- panel handlers, each as one step *)

\* The user edits the document between two runs: it becomes any document.
EditTo(documents) ==
    /\ Idle
    /\ \E d \in documents : d # doc /\ doc' = d
    /\ ev' = [by |-> "edit", first |-> "-", trace |-> <<>>]
    /\ UNCHANGED <<access, refresh, panel, machine, do_check, slv_thread, thr, mpc,
                   response, tokens, conn, backend>>

Edit == EditTo(Documents)

\* ControlTaskPanel.write (lines 102-106) and Prepare.run on the document: the
\* writer, which runs only when no check failed, succeeds or not.
Write ==
    /\ Idle
    /\ \E written \in IF PrepareRun(doc.bodies, doc.solids, doc.members_ok,
                                     doc.material_unset, doc.fixed, doc.ErrorThreshold,
                                     TRUE).failed
                        THEN {TRUE} ELSE BOOLEAN :
         LET o == PrepareRun(doc.bodies, doc.solids, doc.members_ok, doc.material_unset,
                             doc.fixed, doc.ErrorThreshold, written)
         IN  /\ ev' = [by |-> "write", first |-> o.first, trace |-> o.trace]
             /\ doc' = [doc EXCEPT !.ErrorThreshold = o.ErrorThreshold]
             /\ Store(o)
    /\ UNCHANGED <<panel, machine, do_check, slv_thread, thr, mpc, response, tokens,
                   conn, backend>>

\* ControlTaskPanel.fetch (lines 122-128) and Fetch.run.
Fetch ==
    /\ Idle
    /\ \E a \in Asked(access, FetchAnswers) :
         LET o == FetchRun(access, a)
         IN  /\ ev' = [by |-> "fetch", first |-> o.first, trace |-> o.trace]
             /\ Store(o)
    /\ Connects("fetch")
    /\ UNCHANGED <<panel, machine, do_check, slv_thread, thr, mpc, response, tokens,
                   doc, backend>>

\* The job the user selected in the list, if any (get_selected_job).
Selections == {"", "abc123de-7f"}

\* File names, as the parts of their stem and their suffix: "run_2.zip" is
\* <<"run", "_", "2">> and ".zip".
File(stem, suffix) == [stem |-> stem, suffix |-> suffix]

\* The files the working directory may hold before a download.
Shelf ==
    {File(<<"run">>, ".zip"), File(<<"run", "_", "1">>, ".zip"),
     File(<<"run", "_", "2">>, ".zip"), File(<<"re", "run">>, ".txt"),
     File(<<"mesh">>, ".brep")}

\* res_filename, lines 434-437: the name in the Content-Disposition header, or
\* "job_result.zip" without one.
Announced(r) ==
    IF "filename" \in DOMAIN r.body /\ r.body.filename = "run.zip"
    THEN File(<<"run">>, ".zip")
    ELSE File(<<"job_result">>, ".zip")

\* Python's "a in b" of two strings, on their parts.
Contains(a, b) ==
    \E k \in 1..(Len(b) + 1 - Len(a)) : SubSeq(b, k, k + Len(a) - 1) = a

\* str.format of a number: its decimal digits.
RECURSIVE Digits(_)
Digits(n) ==
    LET digit == <<"0", "1", "2", "3", "4", "5", "6", "7", "8", "9">>[(n % 10) + 1]
    IN  IF n < 10 THEN <<digit>> ELSE Digits(n \div 10) \o <<digit>>

\* Results.run, lines 439-447: a name found in the directory is replaced by
\* stem_n.suffix, n being the number of entries whose stem contains the stem.
SaveName(announced, listing) ==
    LET n_occ == Cardinality({e \in listing : Contains(announced.stem, e.stem)})
    IN  IF announced \in listing
        THEN File(announced.stem \o <<"_">> \o Digits(n_occ), announced.suffix)
        ELSE announced

\* A file name as text.
RECURSIVE Joined(_)
Joined(parts) == IF parts = <<>> THEN "" ELSE Head(parts) \o Joined(Tail(parts))
Text(file) == Joined(file.stem) \o file.suffix

\* Results.run, lines 449-457: the download is written to result_path, which
\* truncates a file of that name, unpacked, and result_path is removed.
Saved(file, listing) ==
    <<[e |-> "save", what |-> IF file \in listing THEN "overwrites" ELSE "creates",
       arg |-> Text(file)],
      [e |-> "save", what |-> "removes", arg |-> Text(file)]>>

\* Results.run, lines 425-472, in a working directory with these files.
ResultsTask(token, job_id, answer, listing) ==
    LET o == ResultsRun(token, job_id, answer)
        n == Len(o.trace)
    IN  IF job_id # "" /\ o.next = "done" /\ Truthy(o.response)
        THEN [o EXCEPT !.trace = SubSeq(o.trace, 1, n - 1)
                                    \o Saved(SaveName(Announced(o.response), listing),
                                             listing)
                                    \o SubSeq(o.trace, n, n)]
        ELSE o

\* ControlTaskPanel.pull (lines 130-138) and Results.run.
Pull ==
    /\ Idle
    /\ \E job_id \in Selections, a \in Asked(access, DownloadAnswers) :
       \E listing \in IF job_id # "" /\ Truthy(a) THEN SUBSET Shelf ELSE {{}} :
         LET o == ResultsTask(access, job_id, a, listing)
         IN  /\ ev' = [by |-> "pull", first |-> o.first, trace |-> o.trace]
             /\ Store(o)
    /\ Connects("pull")
    /\ UNCHANGED <<panel, machine, do_check, slv_thread, thr, mpc, response, tokens,
                   doc, backend>>

\* The question of lines 144-150 and 164-170, asked about a selected job only, and
\* the user's reply to it, as a trace event that names the job.
Dialog(job_id, reply) ==
    IF job_id = "" THEN <<>> ELSE <<[e |-> "confirm", what |-> reply, arg |-> job_id]>>

\* The replies msg_box.exec() may give; without a selected job nothing is asked.
Replies(job_id) == IF job_id = "" THEN {"-"} ELSE {"Yes", "No"}

\* A faulty variant of Proceeds: the run starts whatever the reply.
ProceedsAnyway(job_id, reply) == TRUE

\* Lines 152 and 172: the handler sets the target and calls start() when no job is
\* selected or the reply is Yes; otherwise it returns and has touched nothing.
Proceeds(job_id, reply) == job_id = "" \/ reply = "Yes"

\* ControlTaskPanel.cancel (lines 140-158) and Cancel.run.
Cancel ==
    /\ Idle
    /\ \E job_id \in Selections :
       \E reply \in Replies(job_id) :
         IF Proceeds(job_id, reply)
         THEN \E a \in Then(job_id # "", Asked(access, MessageAnswers)) :
              \E checkin \in Then(Mutate(access, job_id, "cancel", a).next = "refresh",
                                  ProbeAnswers) :
              \E fetch \in Then(Fetches(checkin), FetchAnswers) :
                LET o == MutateRun(access, job_id, "cancel", a, checkin, fetch)
                IN  /\ ev' = [by |-> "cancel", first |-> o.first,
                              trace |-> Dialog(job_id, reply) \o o.trace]
                    /\ Store(o)
                    /\ Connects("cancel")
         ELSE /\ ev' = [by |-> "declined", first |-> "cancel",
                        trace |-> Dialog(job_id, reply)]
              /\ UNCHANGED <<access, refresh, conn>>
    /\ UNCHANGED <<panel, machine, do_check, slv_thread, thr, mpc, response, tokens,
                   doc, backend>>

\* ControlTaskPanel.remove (lines 160-178) and Remove.run.
Remove ==
    /\ Idle
    /\ \E job_id \in Selections :
       \E reply \in Replies(job_id) :
         IF Proceeds(job_id, reply)
         THEN \E a \in Then(job_id # "", Asked(access, MessageAnswers)) :
              \E checkin \in Then(Mutate(access, job_id, "remove", a).next = "refresh",
                                  ProbeAnswers) :
              \E fetch \in Then(Fetches(checkin), FetchAnswers) :
                LET o == MutateRun(access, job_id, "remove", a, checkin, fetch)
                IN  /\ ev' = [by |-> "remove", first |-> o.first,
                              trace |-> Dialog(job_id, reply) \o o.trace]
                    /\ Store(o)
                    /\ Connects("remove")
         ELSE /\ ev' = [by |-> "declined", first |-> "remove",
                        trace |-> Dialog(job_id, reply)]
              /\ UNCHANGED <<access, refresh, conn>>
    /\ UNCHANGED <<panel, machine, do_check, slv_thread, thr, mpc, response, tokens,
                   doc, backend>>

\* ControlTaskPanel.run (lines 108-120) and Solve.run.
Run ==
    /\ Idle
    /\ \E n_file \in 0..MaxFiles :
       \E upload \in Then(n_file > 0, Asked(access, UploadAnswers)) :
       \E checkin \in Then(SolveSubmit(access, n_file, upload).next = "start",
                           ProbeAnswers) :
       \E fetch \in Then(Fetches(checkin), FetchAnswers) :
         LET o == SolveRun(access, n_file, upload, checkin, fetch,
                           is_alive(Solve(machine)))
         IN  /\ ev' = [by |-> "run", first |-> o.first, trace |-> o.trace]
             /\ IF o.start THEN StartThread(Solve(machine))
                ELSE UNCHANGED <<slv_thread, thr>>
             /\ Store(o)
    /\ do_check' = [do_check EXCEPT ![AuthChk(machine)] = FALSE]
    /\ Connects("run")
    /\ UNCHANGED <<panel, machine, mpc, response, tokens, doc, backend>>

\* ControlTaskPanel.auth (lines 193-200) and Auth.run.
Auth ==
    /\ Idle
    /\ \E checkin \in Asked(access, ProbeAnswers) :
       \E c \in IF checkin = Raised \/ Truthy(checkin) THEN {NoCredentials, Typed}
                ELSE Credentials :
       \E confirm \in Then(AuthProbe(access, c.email, c.pswrd, checkin, c.login).next
                               = "login", ProbeAnswers) :
         LET o == AuthRun(access, c, checkin, confirm)
         IN  /\ ev' = [by |-> "auth", first |-> o.first, trace |-> o.trace]
             /\ Store(o)
    /\ Connects("auth")
    /\ UNCHANGED <<panel, machine, do_check, slv_thread, thr, mpc, response, tokens,
                   doc, backend>>

\* The panel is given machine m: updateWidget (lines 206-211) runs
\* ControlTaskPanel.auth_check (lines 180-191) and AuthCheck.run on it.
Given(m, flags) ==
    /\ \E checkin \in Asked(access, CheckinAnswers) :
         LET o == AuthCheckTask(access, checkin, is_alive(AuthChk(m)))
         IN  /\ ev' = [by |-> "auth_check", first |-> o.first, trace |-> o.trace]
             /\ IF o.start THEN StartThread(AuthChk(m))
                ELSE UNCHANGED <<slv_thread, thr>>
             /\ Store(o)
    /\ do_check' = [flags EXCEPT ![Solve(m)] = FALSE]
    /\ machine' = m
    /\ mpc' = "idle"
    /\ Connects("auth_check")
    /\ UNCHANGED <<panel, response, tokens, doc, backend>>

\* ControlTaskPanel.__init__, line 90: the first machine.
Created ==
    /\ panel = "live" /\ mpc = "created"
    /\ Given(machine, do_check)

\* ControlTaskPanel.updateMachine (lines 213-216) and the machine setter
\* (lines 96-100): the directory changed, the old machine is disconnected and the
\* panel is given a new one.
UpdateMachine ==
    /\ Idle
    /\ machine < MaxMachines
    /\ Given(machine + 1, Disconnected(machine))

\* One pass of the polling loop, lines 245-253 / 489-497: the flag is set on
\* entry, tested, and the answer decides the flag and where the thread stands.
PollerIterate(i, k) ==
    /\ thr[i][k].pc \in {"begin", "test"}
    /\ thr[i][k].pc = "test" => do_check[i]
    /\ \E answer \in Asked(access, CheckinAnswers) :
         LET o == PollerOutcome(access, answer, TRUE)
         IN  /\ do_check' = [do_check EXCEPT ![i] = o.do_check]
             /\ thr' = [thr EXCEPT ![i][k] = [pc |-> o.pc, tok |-> NoToken,
                                               last |-> o.last]]
             /\ ev' = [by |-> "poller", first |-> o.first, trace |-> o.trace]
             /\ Store(o)
    /\ UNCHANGED <<panel, machine, slv_thread, mpc, response, tokens, doc, conn, backend>>

\* The loop test fails and the thread returns, lines 246 and 255 / 490 and 499.
PollerReturn(i, k) ==
    /\ thr[i][k].pc = "test"
    /\ ~do_check[i]
    /\ slv_thread' = [slv_thread EXCEPT ![i] = 0]
    /\ thr' = [thr EXCEPT ![i][k] = NoThread]
    /\ ev' = Quiet
    /\ UNCHANGED <<access, refresh, panel, machine, do_check, mpc, response, tokens,
                   doc, conn, backend>>

Init == InitThreads

Next ==
    \/ Created
    \/ Write
    \/ Run
    \/ Fetch
    \/ Pull
    \/ Cancel
    \/ Remove
    \/ Auth
    \/ Destroyed
    \/ \E i \in Inst, k \in Slots : PollerIterate(i, k)
    \/ \E i \in Inst, k \in Slots : PollerReturn(i, k)

Spec == Init /\ [][Next]_vars

\* Prepare alone, on every document: the panel is created, the user edits the
\* document and writes the solver input.
NextPrepare == Created \/ Edit \/ Write

SpecPrepare == Init /\ [][NextPrepare]_vars

\* A document that fails check_dirichlet (lines 154-160) and no other check.
Unfixed == [SoundDocument EXCEPT !.fixed = 0]

\* The fixed constraint of the document is removed or put back.
Unfix == EditTo({SoundDocument, Unfixed})

\* The whole runs, on a document the user turns sound and unsound.
NextFailures == Next \/ Unfix

SpecFailures == Init /\ [][NextFailures]_vars

\* The request a run sends first: Fetch.run, line 397, through authenticated_call
\* (line 73), and Auth.run, line 544 with a stored token and lines 558-560
\* without one.
FirstRequest(task, token) ==
    CASE task = "fetch" -> Request(token, "GET", "fetch")
      [] task = "auth" -> IF token = NoToken THEN PlainRequest("token")
                          ELSE Request(token, "GET", "checkin")

\* requests.get and requests.post are called without a timeout (lines 73 and
\* 558-560): when the server accepts the request and never answers, the call does
\* not return, and the run that made it, which start() runs on the panel's
\* thread, stays in it.
Unanswered ==
    /\ Idle
    /\ \E task \in {"fetch", "auth"} :
         /\ FirstRequest(task, access) # <<>>
         /\ ev' = [by |-> task, first |-> "unanswered",
                   trace |-> FirstRequest(task, access)]
         /\ Connects(task)
    /\ mpc' = "calling"
    /\ UNCHANGED <<access, refresh, panel, machine, do_check, slv_thread, thr, response,
                   tokens, doc, backend>>

\* The whole runs, a server that may keep a request unanswered, and a program that
\* takes a step whenever it can.
NextWaits == Next \/ Unanswered

FairWaits == Init /\ [][NextWaits]_vars /\ WF_vars(NextWaits)

(* ------------------------------------------- the view of machine changes *)

NextMachines ==
    \/ Created
    \/ UpdateMachine
    \/ Run
    \/ Destroyed
    \/ \E i \in Inst, k \in Slots : PollerIterate(i, k)
    \/ \E i \in Inst, k \in Slots : PollerReturn(i, k)

SpecMachines == Init /\ [][NextMachines]_vars

(* ------------------------------------------------- the view of the signals *)

\* The tasks of the first machine, just constructed: nothing is connected.
InitSignals ==
    /\ InitPanel
    /\ conn = NoConnections
    /\ users = {}
    /\ calls = [c \in CallIds |-> NoCall]

\* Handlers that connect signals, each with its whole run: the panel is given
\* its machine and the user presses Run, Fetch and Authenticate.
NextSignals ==
    \/ Created
    \/ Run
    \/ Fetch
    \/ Auth

SpecSignals == InitSignals /\ [][NextSignals]_vars

(* --------------------------------------------------- the interleaved view *)

Main ==
    \/ PanelCreated
    \/ RunClicked
    \/ SolveAlive
    \/ SolveStart
    \/ SolveRefresh
    \/ AuthChkAlive
    \/ AuthChkStart
    \/ Destroyed
    \/ AuthClicked
    \/ LogoutAccess
    \/ LogoutRefresh
    \/ LoginAccess
    \/ LoginRefresh
    \/ Fetch
    \/ Pull
    \/ Cancel
    \/ Remove

NextThreads ==
    \/ Main
    \/ \E i \in Inst, k \in Slots : Poller(i, k)

SpecThreads == InitThreads /\ [][NextThreads]_vars

\* Every thread that can take a step eventually takes one.
FairThreads ==
    /\ SpecThreads
    /\ WF_vars(Main)
    /\ \A i \in Inst, k \in Slots : WF_vars(Poller(i, k))

(* ------------------------------------------------------ the backend service *)

\* The addresses register is called with, and the Suqaba tokens a user may send:
\* one the Suqaba API accepts and one it rejects.
Emails == {"ann@x", "bob@x"}
SuqabaTokens == {"accepted", "rejected"}

\* db.query(User).filter(User.email == email).first(), auth.py line 19.
existing_user(rows, email) == \E u \in rows : u.email = email

\* A faulty variant of Unique: the table takes any row.
UniqueAnyway(rows, email) == TRUE

\* email = Column(String, unique=True, ...), user.py line 12: the commit of a row
\* whose email another row has raises IntegrityError.
Unique(rows, email) == \A u \in rows : u.email # email

\* A row of the table as register creates it (lines 28-32, user.py lines 11-22).
User(id, email) ==
    [id |-> id, email |-> email, suqaba_token |-> "", completed_jobs |-> 0]

\* create_access_token(data={"sub": email}), auth.py lines 39-42.
create_access_token(email) == "bearer of " \o email

\* The request reaches register: the address, and whether a user has it then.
RegisterCalled(c) ==
    /\ calls[c].pc = "-"
    /\ \E email \in Emails :
         calls' = [calls EXCEPT ![c] = [NoCall EXCEPT !.op = "register",
                                                      !.pc = "check",
                                                      !.email = email,
                                                      !.known = existing_user(users, email)]]
    /\ UNCHANGED <<users, frontend>>

\* register, lines 19-24: the address is looked up; a user who has it ends the
\* call with 400.
RegisterCheck(c) ==
    /\ calls[c].op = "register" /\ calls[c].pc = "check"
    /\ calls' = [calls EXCEPT ![c] =
                   IF existing_user(users, calls[c].email)
                   THEN [@ EXCEPT !.pc = "done", !.status = 400,
                                  !.detail = "Email already registered"]
                   ELSE [@ EXCEPT !.pc = "commit"]]
    /\ UNCHANGED <<users, frontend>>

\* register, lines 27-52: the row is added and committed, and the answer carries
\* a token for it; a commit the table refuses raises, which nothing catches, so
\* the call ends with 500.
RegisterCommit(c) ==
    /\ calls[c].op = "register" /\ calls[c].pc = "commit"
    /\ IF Unique(users, calls[c].email)
       THEN /\ users' = users \cup {User(c, calls[c].email)}
            /\ calls' = [calls EXCEPT ![c] =
                           [@ EXCEPT !.pc = "done", !.status = 200,
                                     !.access_token = create_access_token(calls[c].email)]]
       ELSE /\ users' = users
            /\ calls' = [calls EXCEPT ![c] =
                           [@ EXCEPT !.pc = "done", !.status = 500,
                                     !.detail = "IntegrityError"]]
    /\ UNCHANGED frontend

\* What the Suqaba API does with GET /jobs/counts under a token: it answers with
\* the counts, rejects the token, or cannot be reached.
Outcomes(token) ==
    IF token = "accepted" THEN {"counts", "unreachable"} ELSE {"rejected", "unreachable"}

\* SuqabaClient.authenticated_call, suqaba_client.py lines 21-33: requests raises
\* when the API cannot be reached and raise_for_status on an error status.
client_call(outcome) ==
    IF outcome = "counts" THEN [raised |-> FALSE, completed |-> 1]
    ELSE [raised |-> TRUE, completed |-> 0]

\* SuqabaClient.get_job_counts, lines 35-46: the counts of the answer, and zeros
\* when the call raised.
get_job_counts(outcome) ==
    LET data == client_call(outcome)
    IN  IF data.raised THEN [raised |-> FALSE, completed |-> 0]
        ELSE [raised |-> FALSE, completed |-> data.completed]

\* The request reaches store_suqaba_token with the session of a user.
TokenCalled(c) ==
    /\ calls[c].pc = "-"
    /\ \E u \in users, token \in SuqabaTokens :
         calls' = [calls EXCEPT ![c] = [NoCall EXCEPT !.op = "suqaba-token",
                                                      !.pc = "store",
                                                      !.user = u.id,
                                                      !.token = token]]
    /\ UNCHANGED <<users, frontend>>

\* store_suqaba_token, lines 112-113: the token is put on the user and committed.
TokenStore(c) ==
    /\ calls[c].op = "suqaba-token" /\ calls[c].pc = "store"
    /\ users' = {IF u.id = calls[c].user
                 THEN [u EXCEPT !.suqaba_token = calls[c].token] ELSE u : u \in users}
    /\ calls' = [calls EXCEPT ![c].pc = "verify"]
    /\ UNCHANGED frontend

\* store_suqaba_token, lines 116-129: the counts are asked for and stored; an
\* exception of that part ends the call with 400.
TokenVerify(c) ==
    /\ calls[c].op = "suqaba-token" /\ calls[c].pc = "verify"
    /\ \E outcome \in Outcomes(calls[c].token) :
         LET job_counts == get_job_counts(outcome)
         IN  IF job_counts.raised
             THEN /\ users' = users
                  /\ calls' = [calls EXCEPT ![c] =
                                 [@ EXCEPT !.pc = "done", !.outcome = outcome,
                                           !.status = 400,
                                           !.detail = "Invalid Suqaba token"]]
             ELSE /\ users' = {IF u.id = calls[c].user
                               THEN [u EXCEPT !.completed_jobs = job_counts.completed]
                               ELSE u : u \in users}
                  /\ calls' = [calls EXCEPT ![c] =
                                 [@ EXCEPT !.pc = "done", !.outcome = outcome,
                                           !.status = 200,
                                           !.detail = "Suqaba token stored successfully"]]
    /\ UNCHANGED frontend

\* The handlers of the requests run side by side: the service's worker processes
\* share the database and nothing else.
NextBackend ==
    \/ \E c \in CallIds : RegisterCalled(c)
    \/ \E c \in CallIds : RegisterCheck(c)
    \/ \E c \in CallIds : RegisterCommit(c)
    \/ \E c \in CallIds : TokenCalled(c)
    \/ \E c \in CallIds : TokenStore(c)
    \/ \E c \in CallIds : TokenVerify(c)

\* The desktop panel is not started.
InitBackend == InitThreads /\ access = NoToken

SpecBackend == InitBackend /\ [][NextBackend]_vars

(* ------------------------------------------------------------- properties *)

\* Thread k of instance i makes its status call in this step.
Called(i, k) == thr[i][k].pc = "call" /\ thr'[i][k].pc # "call"

\* A thread of instance i is started in this step.
PollerStarted(i) == \E k \in Slots : thr[i][k].pc # "begin" /\ thr'[i][k].pc = "begin"

\* The signals and thread starts of a trace, and the authenticated requests in it
\* (the login request to /token/ carries no token).
Signals(trace) == SelectSeq(trace, LAMBDA x : x.e \in {"signal", "start"})
Authenticated(trace) ==
    SelectSeq(trace, LAMBDA x : x.e = "request" /\ x.what # "token")
NeedAuth(trace) == \E n \in 1..Len(trace) : trace[n] = Signal("need_auth", "")[1]

\* The kinds of answer of a call that failed.
FailedKinds == {"no token", "no response", "401", "error"}

\* C1: each task instance that owns a poller has at most one poller thread alive,
\* hence at most one polling loop running, in every interleaving of Submit and
\* AuthCheck with the poller threads; the start path taken while a poller is alive
\* starts none.
OnePollerPerInstance == \A i \in Inst : Cardinality(Running(i)) <= 1

\* Submit took its start path while its poller was in the loop, and started none.
StartSkipped ==
    /\ mpc = "solve_refresh"
    /\ ev.by = "run" /\ ev.trace = <<>>
    /\ Cardinality(InLoop(Solve(machine))) = 1

\* C2: a poller that got a successful answer with processing = 0 and queued = 0
\* makes no further call: it stands at the loop test or behind the loop, and
\* do_check is false.
ZeroStops ==
    \A i \in Inst, k \in Slots :
        thr[i][k].last = "zero" => thr[i][k].pc \in {"test", "exit"} /\ ~do_check[i]

\* A poller left its loop after an answer with both counts at zero.
ZeroStopped == \E i \in Inst, k \in Slots : thr[i][k].last = "zero" /\ thr[i][k].pc = "exit"

FailedCallStops ==
    [][\A i \in Inst, k \in Slots :
          Called(i, k) /\ ev'.first \in FailedKinds
              => ~do_check'[i] /\ thr'[i][k].pc \in {"test", "dead"}]_vars

\* C5, as stated: once the panel is destroyed, every poller thread of its machine
\* eventually ends.
DiscardStopsPollers ==
    (panel = "destroyed") ~> (\A i \in Inst : Running(i) = {})

\* C6: a poller starts only in a Submit whose upload succeeded or in an AuthCheck
\* whose checkin answered 200; a Submit whose upload found no token or got 401
\* signals need_auth and starts none.
StartsAfterSetup ==
    [][/\ PollerStarted(Solve(machine)) =>
             ev'.by = "run" /\ ev'.first \in {"ok", "other", "zero", "busy"}
       /\ PollerStarted(AuthChk(machine)) =>
             ev'.by = "auth_check" /\ ev'.first \in {"ok", "zero", "busy"}
       /\ \A i \in Inst : i[1] # machine => ~PollerStarted(i)
       /\ ev'.by = "run" /\ ev'.first \in {"no token", "401"} =>
             NeedAuth(ev'.trace) /\ \A i \in Inst : ~PollerStarted(i)]_vars

\* A Submit got 401 for its upload and asked for authentication.
SubmitRefused == ev.by = "run" /\ ev.first = "401" /\ NeedAuth(ev.trace)

\* C7, as stated: while no access token is stored, no step sends an authenticated
\* request.
NoRequestWithoutStoredToken ==
    [][access = NoToken => Authenticated(ev'.trace) = <<>>]_vars

\* C7, amended: a call that read no access token from the store sends no request:
\* the poller's call with the token it read, a task's call with the stored token.
NoRequestWithoutReadToken ==
    [][/\ \A i \in Inst, k \in Slots :
             Called(i, k) /\ thr[i][k].tok = NoToken => Authenticated(ev'.trace) = <<>>
       /\ ev'.by \notin {"poller", "thread"} /\ access = NoToken =>
             Authenticated(ev'.trace) = <<>>]_vars

\* A poller read an absent token and its call returned without a request.
PollerShortCircuited ==
    ev.by = "poller" /\ ev.first = "no token" /\ ev.trace = <<>> /\ access = NoToken

\* The answer of a server that rejects the token.
Unauthorized == [status |-> 401, body |-> [json |-> TRUE]]

\* What a run shows outside: its signals and thread starts, and its write to the
\* token store.
Outward(o) == [signals |-> Signals(o.trace), write |-> o.write]

\* C8: for every task and for the poller, the run whose first call finds no token
\* and the run whose first call is answered 401 give the same signals, the same
\* thread starts, the same write to the token store and the same poller state,
\* whatever the other inputs are.
SameAsUnauthorized ==
    access # NoToken =>
        /\ \A n \in 1..MaxFiles, alive \in BOOLEAN :
              /\ Outward(SolveRun(NoToken, n, None, None, None, alive))
                    = Outward(SolveRun(access, n, Unauthorized, None, None, alive))
              /\ ~SolveRun(NoToken, n, None, None, None, alive).start
              /\ ~SolveRun(access, n, Unauthorized, None, None, alive).start
        /\ Outward(FetchRun(NoToken, None)) = Outward(FetchRun(access, Unauthorized))
        /\ \A job_id \in Selections \ {""} :
              /\ Outward(ResultsRun(NoToken, job_id, None))
                    = Outward(ResultsRun(access, job_id, Unauthorized))
              /\ \A w \in {"cancel", "remove"} :
                    Outward(MutateRun(NoToken, job_id, w, None, None, None))
                        = Outward(MutateRun(access, job_id, w, Unauthorized, None, None))
        /\ \A alive \in BOOLEAN :
              /\ Outward(AuthCheckTask(NoToken, None, alive))
                    = Outward(AuthCheckTask(access, Unauthorized, alive))
              /\ ~AuthCheckTask(NoToken, None, alive).start
              /\ ~AuthCheckTask(access, Unauthorized, alive).start
        /\ \A c \in Credentials, confirm \in ProbeAnswers :
              Outward(AuthRun(NoToken, c, None, confirm))
                  = Outward(AuthRun(access, c, Unauthorized, confirm))
        /\ \A flag \in BOOLEAN :
              LET a == PollerOutcome(NoToken, None, flag)
                  b == PollerOutcome(access, Unauthorized, flag)
              IN  /\ Outward(a) = Outward(b)
                  /\ a.pc = b.pc /\ a.do_check = b.do_check /\ a.last = b.last

\* An AuthCheck got 401 while a token was stored.
CheckRefused == ev.by = "auth_check" /\ ev.first = "401" /\ access # NoToken

\* C9, as stated: the stored session has both tokens or none.
SessionWhole == (access = NoToken) <=> (refresh = NoToken)

\* C10: a step of any task but Auth, and of a poller, leaves both stored tokens as
\* they were.
OnlyAuthWrites ==
    [][ev'.by # "auth" => access' = access /\ refresh' = refresh]_vars

\* A Fetch got 401 and the tokens are still stored.
FetchRefused ==
    ev.by = "fetch" /\ ev.first = "401" /\ access # NoToken /\ refresh # NoToken

\* The kinds of answer of a call that succeeded ("response and response.ok").
SucceededKinds == {"other", "ok", "zero", "busy"}

\* The events of a trace that are requests to this endpoint, and its finished
\* signals.
Requests(trace, endpoint) ==
    SelectSeq(trace, LAMBDA x : x.e = "request" /\ x.what = endpoint)
Finished(trace) ==
    SelectSeq(trace, LAMBDA x : x.e = "signal" /\ x.what = "finished")

\* The login path of Auth.run was entered: the credentials were found empty, or
\* they were posted to /token/.
LoginPath(trace) ==
    \/ \E n \in 1..Len(trace) : trace[n] = Status("Email or password cannot be empty.")[1]
    \/ Requests(trace, "token") # <<>>

\* C11, as stated: an Auth whose probe succeeded cleared both tokens, posted no
\* credentials and signalled not-authenticated, and every other Auth took the
\* login path.
LogoutIffProbeSucceeds ==
    [][ev'.by = "auth" =>
          IF ev'.first \in SucceededKinds
          THEN /\ access' = NoToken /\ refresh' = NoToken
               /\ Requests(ev'.trace, "token") = <<>>
               /\ Signals(ev'.trace) = Signal("finished", "0")
          ELSE LoginPath(ev'.trace)]_vars

\* The answer of POST /token/ to credentials the server accepts, those credentials,
\* and the answer of GET /checkin/ to a token the server accepts.
Issued ==
    [status |-> 200,
     body |-> [json |-> TRUE, access |-> IssuedAccess, refresh |-> IssuedRefresh]]
Accepted == [email |-> "user@x", pswrd |-> "secret", login |-> Issued]
Welcomes == {a \in CheckinAnswers : a.status = 200}

\* The probes of an Auth run that finds no valid session: no token is stored, or
\* the server answers the stored one with an error status.
NoSession == {a \in Asked(access, ProbeAnswers) : a # Raised /\ ~Truthy(a)}

\* C12: an Auth that finds no valid session and whose credentials the server
\* accepts stores both issued tokens and signals authenticated, and an AuthCheck
\* run on the store it leaves, the server accepting the token, signals
\* authenticated; an Auth step that signals authenticated leaves such a store.
LoginThenCheck ==
    [][ev'.by = "auth" =>
          /\ \A checkin \in NoSession, confirm \in Welcomes :
                LET o == AuthRun(access, Accepted, checkin, confirm)
                IN  /\ o.write = <<[access |-> IssuedAccess, refresh |-> IssuedRefresh]>>
                    /\ Signals(o.trace) = Signal("finished", "1")
          /\ Finished(ev'.trace) = Signal("finished", "1") =>
                /\ access' = IssuedAccess /\ refresh' = IssuedRefresh
                /\ \A answer \in Welcomes, alive \in BOOLEAN :
                      Finished(AuthCheckTask(access', answer, alive).trace)
                          = Signal("finished", "1")]_vars

\* An Auth logged in from a store without tokens.
LoggedIn ==
    /\ ev.by = "auth" /\ ev.first = "no token"
    /\ Finished(ev.trace) = Signal("finished", "1")
    /\ access = IssuedAccess /\ refresh = IssuedRefresh

\* Auth.run reported empty credentials in this trace.
EmptyReported(trace) ==
    \E n \in 1..Len(trace) : trace[n] = Status("Email or password cannot be empty.")[1]

\* The credentials with the email, the password or both left empty.
Blank == {c \in Credentials : c.email = "" \/ c.pswrd = ""}

\* C13, as stated: an Auth that found its credentials empty issued no network call
\* at all, signalled not-authenticated and left the stored tokens as they were.
EmptyLoginIsLocal ==
    [][ev'.by = "auth" /\ EmptyReported(ev'.trace) =>
          /\ SelectSeq(ev'.trace, LAMBDA x : x.e = "request") = <<>>
          /\ Signals(ev'.trace) = Signal("finished", "0")
          /\ access' = access /\ refresh' = refresh]_vars

\* C13, amended: on the login path with an empty email or password the run is the
\* probe's request (sent when a token is stored), the report and the
\* not-authenticated signal, with no request to /token/ and no write to the store.
EmptyLoginPostsNothing ==
    [][ev'.by = "auth" =>
          /\ \A checkin \in NoSession, c \in Blank :
                LET o == AuthRun(access, c, checkin, None)
                IN  /\ o.trace = Request(access, "GET", "checkin")
                                     \o Status("Email or password cannot be empty.")
                                     \o Signal("finished", "0")
                    /\ o.write = <<>>
          /\ EmptyReported(ev'.trace) =>
                /\ Requests(ev'.trace, "token") = <<>>
                /\ Len(SelectSeq(ev'.trace, LAMBDA x : x.e = "request")) <= 1
                /\ Signals(ev'.trace) = Signal("finished", "0")
                /\ access' = access /\ refresh' = refresh]_vars

\* An Auth with empty credentials whose probe, sent with the stored token, got 401.
EmptyAfterProbe ==
    /\ ev.by = "auth" /\ ev.first = "401" /\ EmptyReported(ev.trace)
    /\ access # NoToken

\* The requests of a trace, in order.
Calls(trace) == SelectSeq(trace, LAMBDA x : x.e = "request")

\* The login request of this Auth trace was not followed by the checkin that
\* follows a stored pair: the login attempt failed.
LoginFailed(trace) ==
    Calls(trace) # <<>> /\ Calls(trace)[Len(Calls(trace))].what = "token"

\* C14, as stated: after a failed login attempt the stored tokens are what they
\* were before the Auth step and the step signalled not-authenticated.
FailedLoginKeepsSession ==
    [][ev'.by = "auth" /\ LoginFailed(ev'.trace) =>
          /\ access' = access /\ refresh' = refresh
          /\ Finished(ev'.trace) = Signal("finished", "0")]_vars

\* The run called self.fail(): it is marked failed.
MarkedFailed(trace) == \E n \in 1..Len(trace) : trace[n] = Fail[1]

\* compress_files found no file to package, lines 239-241.
NothingPackaged(trace) ==
    \E n \in 1..Len(trace) : trace[n] = Status("Your job cannot be submitted.")[1]

\* C15, as stated: a Submit that finds no file with a whitelisted extension reports
\* that the job cannot be submitted, issues no network call, starts no poller and
\* is marked failed.
EmptyArchiveFails ==
    [][ev'.by = "run" =>
          /\ \A alive \in BOOLEAN :
                NothingPackaged(SolveRun(access, 0, None, None, None, alive).trace)
          /\ NothingPackaged(ev'.trace) =>
                /\ Calls(ev'.trace) = <<>>
                /\ ~PollerStarted(Solve(machine))
                /\ MarkedFailed(ev'.trace)]_vars

\* A trace that is one status line and nothing else.
OneStatus(trace) == Len(trace) = 1 /\ trace[1].e = "status"

\* C16: a Results, Cancel or Remove whose job id is absent sends no request and
\* emits one status line and nothing else, whatever the server would answer, and
\* the step leaves the stored tokens, the flags and the poller threads as they were.
AbsentJobIsLocal ==
    [][ev'.by \in {"pull", "cancel", "remove"} =>
          /\ \A a \in DownloadAnswers \cup {None} :
                /\ OneStatus(ResultsRun(access, "", a).trace)
                /\ ResultsRun(access, "", a).write = <<>>
          /\ \A w \in {"cancel", "remove"}, a \in MessageAnswers \cup {None} :
                /\ OneStatus(MutateRun(access, "", w, a, None, None).trace)
                /\ MutateRun(access, "", w, a, None, None).write = <<>>
          /\ ev'.first = "-" =>
                /\ OneStatus(ev'.trace)
                /\ access' = access /\ refresh' = refresh
                /\ do_check' = do_check /\ slv_thread' = slv_thread /\ thr' = thr]_vars

\* A Cancel with no job selected while a token is stored.
CancelUnselected ==
    /\ ev.by = "cancel" /\ ev.first = "-" /\ access # NoToken
    /\ ev.trace = Status("Please, fetch and select a job.")

\* C17, as stated: every Fetch step emits exactly one finished event, alone when
\* the call succeeded, and with the empty list and followed by need_auth when no
\* token is stored or the server answered with an error status.
FetchFinishesOnce ==
    [][ev'.by = "fetch" =>
          /\ Len(Finished(ev'.trace)) = 1
          /\ ev'.first \in SucceededKinds => Signals(ev'.trace) = Finished(ev'.trace)
          /\ ev'.first \in {"no token", "401", "error"} =>
                Signals(ev'.trace) = Signal("finished", "[]") \o Signal("need_auth", "")]_vars

\* C18, as stated: a Submit whose upload succeeded emits exactly one finished
\* event and is not marked failed, whatever the checkin and fetch calls of its
\* refresh are answered.
RefreshFailureStillFinishes ==
    [][ev'.by = "run" /\ ev'.first \in SucceededKinds =>
          /\ Len(Finished(ev'.trace)) = 1
          /\ ~MarkedFailed(ev'.trace)]_vars

\* The positions of a trace holding the server's confirmation message, a request
\* to this endpoint, and a finished signal.
Confirmations(trace) ==
    {n \in 1..Len(trace) : trace[n].e = "status" /\ trace[n].what = "done"}
Asks(trace, endpoint) ==
    {n \in 1..Len(trace) : trace[n].e = "request" /\ trace[n].what = endpoint}
Finishes(trace) ==
    {n \in 1..Len(trace) : trace[n].e = "signal" /\ trace[n].what = "finished"}

\* C19, as stated: in a Cancel or Remove step whose request succeeded, the
\* confirmation message comes first, then the checkin query, then the fetch query,
\* then one finished event, which is the only one and ends the run.
RefreshInOrder ==
    [][ev'.by \in {"cancel", "remove"} /\ ev'.first \in SucceededKinds =>
          /\ \E m \in Confirmations(ev'.trace), c \in Asks(ev'.trace, "checkin"),
                f \in Asks(ev'.trace, "fetch") :
                m < c /\ c < f /\ Finishes(ev'.trace) = {Len(ev'.trace)} /\ f < Len(ev'.trace)
          /\ Len(Finished(ev'.trace)) = 1]_vars

\* The steps that are one invocation of a network task.
NetworkTasks == {"run", "fetch", "pull", "cancel", "remove", "auth_check", "auth"}

\* The positions of a trace holding a terminal event, and those holding anything
\* else the task does itself (a poller's start is not the task's event).
Terminals(trace) ==
    {n \in 1..Len(trace) :
        trace[n].e = "signal" /\ trace[n].what \in {"finished", "need_auth"}}
Others(trace) ==
    {n \in 1..Len(trace) : trace[n].e \in {"request", "status", "error", "warning"}}

\* C20, as stated: every invocation of a network task emits a finished or a
\* need_auth event, and nothing else after it.
EndsWithTerminal ==
    [][ev'.by \in NetworkTasks =>
          /\ Terminals(ev'.trace) # {}
          /\ \A n \in Others(ev'.trace) : \E k \in Terminals(ev'.trace) : n < k]_vars

\* The kinds of answer that are a transient failure: an error status other than
\* 401, or no response.
TransientKinds == {"error", "no response"}

\* C21, as stated: a task whose call met a transient failure went on (the failure
\* came back as a result), reported it in a status line after the request, and
\* is marked failed.
TransientIsReported ==
    [][ev'.by \in NetworkTasks /\ ev'.first \in TransientKinds =>
          /\ \E q \in Asks(ev'.trace, "checkin") \cup Asks(ev'.trace, "fetch")
                       \cup Asks(ev'.trace, "upload") \cup Asks(ev'.trace, "download")
                       \cup Asks(ev'.trace, "cancel") \cup Asks(ev'.trace, "remove") :
                \E n \in q + 1..Len(ev'.trace) : ev'.trace[n].e = "status"
          /\ MarkedFailed(ev'.trace)]_vars

\* A status line with this text is in the trace.
Says(trace, line) == \E n \in 1..Len(trace) : trace[n] = Status(line)[1]

\* C23, as stated: an AuthCheck answers no token and 401 with the guidance to
\* authenticate and the not-authenticated signal, 200 with the summary and the
\* authenticated signal, and every other status with the report of an unexpected
\* response and the not-authenticated signal (a call without a response has no
\* status and is left aside).
ThreeOutcomes ==
    [][ev'.by = "auth_check" /\ ev'.first # "no response" =>
          CASE ev'.first \in {"no token", "401"} ->
                  /\ Says(ev'.trace, "Please, authenticate yourself.")
                  /\ Finished(ev'.trace) = Signal("finished", "0")
            [] ev'.first \in {"ok", "zero", "busy"} ->
                  /\ Says(ev'.trace, "You are authenticated.")
                  /\ Finished(ev'.trace) = Signal("finished", "1")
            [] OTHER ->
                  /\ Says(ev'.trace, "Unexpected response")
                  /\ Finished(ev'.trace) = Signal("finished", "0")]_vars

\* C24, as stated: a Results whose download got the structured not-ready answer
\* shows the server's message and emits no need_auth signal.
NotReadyIsNoFailure ==
    [][ev'.by = "pull" /\ Says(ev'.trace, "not ready yet") =>
          /\ ~NeedAuth(ev'.trace)
          /\ ~MarkedFailed(ev'.trace)]_vars

\* A check of Prepare is violated by the document: the Body count or the solid
\* count is not one, no material is selected, or no boundary is fixed.
Violated(d) == d.bodies # 1 \/ d.solids # 1 \/ d.material_unset \/ d.fixed = 0

\* The error lines of a trace.
Errors(trace) == SelectSeq(trace, LAMBDA x : x.e = "error")

\* C28: a Prepare step sends no request, and on a document that violates a check
\* it is marked failed, reports an error and does not invoke the writer.
PrepareIsLocal ==
    [][ev'.by = "write" =>
          /\ Calls(ev'.trace) = <<>>
          /\ Violated(doc) =>
                /\ MarkedFailed(ev'.trace)
                /\ Errors(ev'.trace) # <<>>
                /\ ~Says(ev'.trace, "Preparing solver input...")]_vars

\* A Prepare ran on a document without a fixed boundary and is marked failed.
PrepareRefused ==
    ev.by = "write" /\ doc.fixed = 0 /\ doc.bodies = 1 /\ MarkedFailed(ev.trace)

\* The positions of a trace where self.fail() is called.
Fails(trace) == {n \in 1..Len(trace) : trace[n] = Fail[1]}

\* C29, as stated: after the first fail() of a Prepare step nothing more is
\* reported, no error and no warning, and the solver's ErrorThreshold is what it
\* was before the step.
FailStopsRun ==
    [][ev'.by = "write" /\ MarkedFailed(ev'.trace) =>
          /\ \A k \in Fails(ev'.trace), n \in 1..Len(ev'.trace) :
                (\A j \in Fails(ev'.trace) : k <= j) /\ n > k
                    => ev'.trace[n].e \notin {"error", "warning", "fail"}
          /\ ~Says(ev'.trace, "Preparing solver input...")
                => doc'.ErrorThreshold = doc.ErrorThreshold]_vars

\* The warnings of a trace.
Warnings(trace) == SelectSeq(trace, LAMBDA x : x.e = "warning")

\* C30: a Prepare step on a threshold below the floor sets it to the floor with
\* one warning, and that alone does not fail the run: on a document that passes
\* the checks the writer is invoked; a threshold at or above the floor is left as
\* it is, without a warning; after the step the threshold is at least the floor.
ThresholdFloor ==
    [][ev'.by = "write" =>
          /\ doc'.ErrorThreshold >= MinErrorThreshold
          /\ doc.ErrorThreshold < MinErrorThreshold =>
                /\ doc'.ErrorThreshold = MinErrorThreshold
                /\ Len(Warnings(ev'.trace)) = 1
                /\ (~Violated(doc) /\ doc.members_ok)
                      => Says(ev'.trace, "Preparing solver input...")
          /\ doc.ErrorThreshold >= MinErrorThreshold =>
                /\ doc' = doc
                /\ Warnings(ev'.trace) = <<>>]_vars

\* A Prepare raised the threshold to the floor and the run did not fail.
ThresholdRaised ==
    /\ ev.by = "write" /\ Len(Warnings(ev.trace)) = 1 /\ ~MarkedFailed(ev.trace)
    /\ doc.ErrorThreshold = MinErrorThreshold

\* C25, as stated: no Results step saves its download under the name of a file
\* that is already in the working directory.
SaveSparesFiles ==
    [][ev'.by = "pull" =>
          \A n \in 1..Len(ev'.trace) :
              ev'.trace[n].e = "save" => ev'.trace[n].what # "overwrites"]_vars

\* C26, as stated: every remote call has a finite timeout, so a run that waits for
\* an answer the server never gives returns all the same and the machine is idle
\* again.
EveryCallReturns == (mpc = "calling") ~> (mpc = "idle")

\* The panel's thread is inside a run that start() began.
InProgress == mpc \notin {"idle", "created"}

\* The slots the panel connects to the signals of the tasks (lines 112-113,
\* 126-127, 137, 156-157, 176-177, 184-190 and 199); a slot runs inside the run
\* that emits its signal.
Connected ==
    [finished |-> {"createJobBoxes", "checkIn"}, need_auth |-> {"enableAuth"},
     slv_status |-> {"solveStatus"}]

\* The slots of the panel that call start(), themselves or through auth_check
\* (lines 102-216).
Starters ==
    {"write", "run", "fetch", "pull", "cancel", "remove", "auth_check", "auth",
     "updateWidget", "updateMachine"}

\* A handler of the panel calls start() in this step.
CallsStart ==
    PanelCreated \/ RunClicked \/ AuthClicked \/ Fetch \/ Pull \/ Cancel \/ Remove

EndedInFailure ==
    \/ ev.by = "write" /\ MarkedFailed(ev.trace)
    \/ ev.by \in NetworkTasks /\ ev.first \in {"no token", "401"} \cup TransientKinds
    \/ ev.by \in NetworkTasks /\ NeedAuth(ev.trace)
    \/ ev.by = "auth" /\ LoginFailed(ev.trace)
    \/ ev.by = "pull" /\ Says(ev.trace, "not ready yet")
    \/ ev.by = "run" /\ NothingPackaged(ev.trace)

ConfirmedBeforeRequest ==
    [][/\ ev'.by \in {"cancel", "remove"} =>
            \A n \in Asks(ev'.trace, ev'.by) :
                /\ n > 1
                /\ ev'.trace[1] = [e |-> "confirm", what |-> "Yes", arg |-> "abc123de-7f"]
       /\ \A n \in 1..Len(ev'.trace) :
            (ev'.trace[n].e = "confirm" /\ ev'.trace[n].what = "No") =>
                /\ Len(ev'.trace) = 1
                /\ ev'.by \notin NetworkTasks
                /\ UNCHANGED <<access, refresh, panel, machine, do_check, slv_thread, thr,
                               mpc, response, tokens, doc, conn, backend>>]_vars

\* The user answered No to the question about a selected job while a session was
\* stored.
RemoveDeclined ==
    /\ ev.by = "declined" /\ ev.first = "remove" /\ access # NoToken
    /\ ev.trace = Dialog("abc123de-7f", "No")

\* No poller thread of instance i runs: none was started, or each one returned or
\* ended in its call.
Stopped(i) == \A k \in Slots : thr[i][k].pc \in {"none", "dead"}

\* Thread handle slv_thread of instance i is a thread that has just been started.
Fresh(i) == slv_thread[i] # 0 /\ thr[i][slv_thread[i]].pc = "begin"

\* C32: once the pollers of a task instance have stopped, by the zero counts, by a
\* failed call or by the cleared flag, the handle is released: the next Submit
\* whose upload succeeded and the next AuthCheck that got 200 take the start path
\* at their liveness test and start a fresh poller of the instance.
StoppedPollerIsReplaced ==
    [][/\ (mpc = "solve_alive" /\ mpc' # mpc /\ Stopped(Solve(machine)))
            => mpc' = "solve_start"
       /\ (mpc = "solve_start" /\ mpc' # mpc) => Fresh(Solve(machine))'
       /\ (mpc = "authchk_alive" /\ mpc' # mpc /\ Stopped(AuthChk(machine)))
            => mpc' = "authchk_start"
       /\ (mpc = "authchk_start" /\ mpc' # mpc) => Fresh(AuthChk(machine))']_vars

\* A poller of the Solve task ended in a call without a response, and the
\* liveness test of a later Submit has taken the start path.
ReplacedAfterFailure ==
    /\ mpc = "solve_start"
    /\ \E k \in Slots : thr[Solve(machine)][k].pc = "dead"

\* The status line of a submitted job in a trace.
SubmittedLine(trace) ==
    {n \in 1..Len(trace) :
        trace[n].e = "status" /\ trace[n].what = "Your job has successfully been submitted."}

\* C33: after a successful upload the status line of Submit shows exactly the
\* first min(8, length) characters of the returned job id, for ids of any length,
\* and the run goes on to its poller for each of them.
ShowsIdPrefix ==
    access # NoToken =>
        \A upload \in UploadAnswers :
            Truthy(upload) =>
                LET id == upload.body.job_id
                    o == SolveSubmit(access, 1, upload)
                IN  /\ o.next = "start"
                    /\ Cardinality(SubmittedLine(o.trace)) = 1
                    /\ \A n \in SubmittedLine(o.trace) :
                          /\ Len(o.trace[n].arg) = (IF Len(id) < 8 THEN Len(id) ELSE 8)
                          /\ \A c \in 1..Len(o.trace[n].arg) : o.trace[n].arg[c] = id[c]

\* A Submit showed the whole of a job id of three characters.
ShortIdShown ==
    /\ ev.by = "run"
    /\ \E n \in SubmittedLine(ev.trace) : ev.trace[n].arg = <<"a", "b", "1">>

\* C34, as stated: whenever the upload of a Submit has just succeeded (the run
\* stands before its liveness test), a poller of the Solve task issues a status
\* query afterwards: one of its threads is at its call or comes to it, unless the
\* panel is destroyed first.
SubmitIsPolled ==
    (mpc = "solve_alive" /\ ev.by = "run")
        ~> (panel = "destroyed" \/ \E k \in Slots : thr[Solve(machine)][k].pc = "call")

\* C35, as stated: in every state in which no poller thread of a task instance is
\* alive, the continuation flag do_check of the instance is false.
FlagFalseWithoutPoller == \A i \in Inst : Stopped(i) => ~do_check[i]

\* Thread k of instance i reads the stored token in this step (lines 53-54).
ReadsToken(i, k) == thr[i][k].pc = "read" /\ thr'[i][k].pc = "call"

\* C36: after Auth has logged out and while no token is stored, a poller that
\* is still alive stops at its next iteration: the iteration reads no token, sends
\* no request, clears do_check and leaves the thread at its loop test, from where
\* it makes no status call again.
LoggedOutPollerStops ==
    [][\A i \in Inst, k \in Slots :
          /\ (ReadsToken(i, k) /\ access = NoToken) => thr'[i][k].tok = NoToken
          /\ (Called(i, k) /\ thr[i][k].tok = NoToken) =>
                /\ Calls(ev'.trace) = <<>>
                /\ ~do_check'[i]
                /\ thr'[i][k].pc = "test"
          /\ (thr[i][k].pc = "test" /\ ~do_check[i] /\ thr'[i][k] # thr[i][k]) =>
                thr'[i][k].pc \in {"exit", "none"}]_vars

\* Both tokens are cleared and a poller that was alive has made its iteration
\* without a token.
PollerStoppedByLogout ==
    /\ access = NoToken /\ refresh = NoToken
    /\ ev.by = "poller" /\ ev.first = "no token"
    /\ \E i \in Inst, k \in Slots : thr[i][k].pc = "test" /\ ~do_check[i]

\* C37, as stated: the panel clears the flag of the AuthCheck task when it starts a
\* Submit, and after such a switch the poller of the AuthCheck task eventually
\* stops, in every interleaving.
SwitchStopsOtherPoller ==
    (ev.by = "run") ~> (Running(AuthChk(machine)) = {})

\* C38: each signal of a task is connected to its slot of the widget at most
\* once, so that one emission calls the slot once, and of the slv_status signals
\* of Solve and AuthCheck at most one is connected to the live-status display.
ConnectedOnce ==
    /\ \A s \in DOMAIN conn : conn[s] <= 1
    /\ \A s \in {"solve.slv_status"} \cap DOMAIN conn :
         conn[s] + conn["auth_check.slv_status"] <= 1

\* C39: a call of store_suqaba_token whose token the Suqaba API rejected, or that
\* could not reach the API, is answered 400 'Invalid Suqaba token', and a rejected
\* token is not left on the user.
RejectedTokenRefused ==
    \A c \in CallIds :
        (calls[c].op = "suqaba-token" /\ calls[c].pc = "done"
            /\ calls[c].outcome \in {"rejected", "unreachable"})
        => /\ calls[c].status = 400
           /\ calls[c].detail = "Invalid Suqaba token"
           /\ calls[c].outcome = "rejected"
                => \A u \in users : u.id = calls[c].user => u.suqaba_token # calls[c].token

\* C40: under every interleaving of register calls no two users have the same
\* email, and a call for an email that a user had when the call arrived ends with
\* 400 'Email already registered', has created no user and carries no token.
EmailsUnique ==
    /\ \A u, v \in users : u.email = v.email => u = v
    /\ \A c \in CallIds :
         (calls[c].op = "register" /\ calls[c].pc = "done" /\ calls[c].known)
         => /\ calls[c].status = 400
            /\ calls[c].detail = "Email already registered"
            /\ calls[c].access_token = ""
            /\ \A u \in users : u.id # c

\* C40 happens: one call was refused for a known email, and of two calls that
\* raced for an email one lost at the commit.
RefusedAndRaced ==
    /\ \E c \in CallIds : calls[c].pc = "done" /\ calls[c].known /\ calls[c].status = 400
    /\ \E c \in CallIds : calls[c].pc = "done" /\ calls[c].status = 500

====
